---- MODULE Spec2Model ----
(***************************************************************************)
(* A model of the JSONPath (RFC 9535) query compiler and evaluator of this *)
(* repository: the lexer and parser of src/src, and the evaluators of the  *)
(* crates jsonpath_rfc9535_serde, jsonpath_rfc9535_locations and           *)
(* jsonpath_rfc9535_iter.                                                  *)
(*                                                                         *)
(* Conventions.  A Rust char is its code point and a String the sequence   *)
(* of its chars; Str(<<"a", "b">>) is the String "ab".  An Option<T> is    *)
(* the empty sequence (None) or a one-element sequence                     *)
(* (Some).  An enum value is a tuple whose first element is the variant's  *)
(* name.  A JSON value is <<tag, payload>>: an array's payload is the      *)
(* sequence of its elements, an object's payload the sequence of its       *)
(* <<key, value>> members in insertion order.                              *)
(***************************************************************************)
EXTENDS Integers, Sequences, FiniteSets, TLC

\* ------------------------------------------------------------------ bounds

\* Longest array the slice harness slices.
MaxLen == 3
\* Largest magnitude of a slice component the slice harness draws.
MaxAbs == 5

\* ------------------------------------------------------------ small helpers

None == <<>>
Some(v) == <<v>>
IsSome(o) == Len(o) > 0
Unwrap(o) == o[1]

Max(a, b) == IF a >= b THEN a ELSE b
Min(a, b) == IF a <= b THEN a ELSE b

RECURSIVE Flatten(_)
Flatten(ss) == IF Len(ss) = 0 THEN <<>> ELSE Head(ss) \o Flatten(Tail(ss))

\* ------------------------------------------------------------------- state

VARIABLES
    \* the slice harness: the array, the three slice components, the result
    sl_array, sl_start, sl_stop, sl_step, sl_result, sl_pc,
    \* an evaluation: the evaluator crate, the JSON document, the query, the
    \* index of the next segment, the current node list, the node list the
    \* last segment was applied to
    ev_impl, ev_doc, ev_query, ev_seg, ev_nodes, ev_prev,
    \* the SegmentIter of the lazy evaluator: its remaining selector
    \* iterators, its current iterator, whether next() has returned None
    it_selectors, it_it, it_done,
    \* a compilation: the Parser, the number of add_function calls made on
    \* it, the query text, what parse returned, the text the Query is
    \* displayed as, what parse returned for that text
    ps_parser, ps_added, ps_query, ps_result, ps_text, ps_again, ps_pc,
    \* the threads that evaluate queries calling match and search: the
    \* regex cache and the holder of the mutex of the two function
    \* instances, each thread's position and locals, the patterns given to
    \* Regex::new, the evaluations that have finished, how many have started,
    \* and the document and the pattern of the query they evaluate
    rx_cache, rx_mutex, rx_th, rx_compiled, rx_done, rx_evals, rx_doc, rx_p,
    \* a tokenization: the Lexer and the State its run loop holds
    lx_l, lx_state

varsSlice == <<sl_array, sl_start, sl_stop, sl_step, sl_result, sl_pc>>

varsEval == <<ev_impl, ev_doc, ev_query, ev_seg, ev_nodes, ev_prev,
              it_selectors, it_it, it_done>>

varsParse == <<ps_parser, ps_added, ps_query, ps_result, ps_text, ps_again, ps_pc>>

varsRegex == <<rx_cache, rx_mutex, rx_th, rx_compiled, rx_done, rx_evals, rx_doc, rx_p>>

varsLex == <<lx_l, lx_state>>

vars == <<varsSlice, varsEval, varsParse, varsRegex, varsLex>>

\* The variables of a harness that is not running.
IdleSlice ==
    /\ sl_array = <<>> /\ sl_start = <<>> /\ sl_stop = <<>> /\ sl_step = <<>>
    /\ sl_result = <<>> /\ sl_pc = "idle"

IdleEval ==
    /\ ev_impl = "none" /\ ev_doc = <<>> /\ ev_query = <<>> /\ ev_seg = 0
    /\ ev_nodes = <<>> /\ ev_prev = <<>>
    /\ it_selectors = <<>> /\ it_it = <<>> /\ it_done = FALSE

IdleParse ==
    /\ ps_parser = <<>> /\ ps_added = 0 /\ ps_query = <<>> /\ ps_result = <<>>
    /\ ps_text = <<>> /\ ps_again = <<>> /\ ps_pc = "idle"

IdleRegex ==
    /\ rx_cache = <<>> /\ rx_mutex = <<>> /\ rx_th = <<>>
    /\ rx_compiled = {} /\ rx_done = <<>> /\ rx_evals = 0
    /\ rx_doc = <<>> /\ rx_p = <<>>

IdleLex == lx_l = <<>> /\ lx_state = "none"

\* ------------------------------------------------------------ slice (serde)

\* for i in (n_start..n_stop).step_by(n_step)
RECURSIVE RangeStepBy(_, _, _)
RangeStepBy(i, stop, step) ==
    IF i < stop THEN <<i>> \o RangeStepBy(i + step, stop, step) ELSE <<>>

\* let mut i = n_start; while i > n_stop { ...; i += n_step }
RECURSIVE WhileAbove(_, _, _)
WhileAbove(i, stop, step) ==
    IF i > stop THEN <<i>> \o WhileAbove(i + step, stop, step) ELSE <<>>

slice_n_start(start, n_step, array_length) ==
    IF IsSome(start)
    THEN IF Unwrap(start) < 0
         THEN Max(array_length + Unwrap(start), 0)
         ELSE Min(Unwrap(start), array_length - 1)
    ELSE IF n_step < 0 THEN array_length - 1 ELSE 0

slice_n_stop(stop, n_step, array_length) ==
    IF IsSome(stop)
    THEN IF Unwrap(stop) < 0
         THEN Max(array_length + Unwrap(stop), -1)
         ELSE Min(Unwrap(stop), array_length)
    ELSE IF n_step < 0 THEN -1 ELSE array_length

\* The slice function: the selected <<index, element>> pairs, in order.
\* array.get(i).unwrap() is array[i + 1]; an index outside the array would
\* stop the evaluation.
slice(array, start, stop, step) ==
    LET array_length == Len(array)
        n_step == IF IsSome(step) THEN Unwrap(step) ELSE 1
        n_start == slice_n_start(start, n_step, array_length)
        n_stop == slice_n_stop(stop, n_step, array_length)
        idx == IF n_step > 0
               THEN RangeStepBy(n_start, n_stop, n_step)
               ELSE WhileAbove(n_start, n_stop, n_step)
    IN  IF array_length = 0 THEN <<>>
        ELSE IF n_step = 0 THEN <<>>
        ELSE [k \in 1..Len(idx) |-> <<idx[k], array[idx[k] + 1]>>]

\* ---------------------------------------------------------------- strings

\* The printable ASCII characters, in code order: Ascii[i] has code i + 31.
\* The grave accent (code 96) is written "grave".
Ascii ==
    << " ", "!", "\"", "#", "$", "%", "&", "'", "(", ")", "*", "+",
       ",", "-", ".", "/", "0", "1", "2", "3", "4", "5", "6", "7",
       "8", "9", ":", ";", "<", "=", ">", "?", "@", "A", "B", "C",
       "D", "E", "F", "G", "H", "I", "J", "K", "L", "M", "N", "O",
       "P", "Q", "R", "S", "T", "U", "V", "W", "X", "Y", "Z", "[",
       "\\", "]", "^", "_", "grave", "a", "b", "c", "d", "e", "f", "g",
       "h", "i", "j", "k", "l", "m", "n", "o", "p", "q", "r", "s",
       "t", "u", "v", "w", "x", "y", "z", "{", "|", "}", "~" >>

CodeOf ==
    [c \in {Ascii[i] : i \in 1..Len(Ascii)} |->
        31 + (CHOOSE i \in 1..Len(Ascii) : Ascii[i] = c)]

\* ch as u32, for a printable ASCII character written as a string
CharCode(c) == CodeOf[c]

\* The String made of the given printable ASCII characters.
Str(s) == [i \in 1..Len(s) |-> CharCode(s[i])]

\* l < r on Strings: lexicographic, by code point
RECURSIVE str_lt(_, _)
str_lt(l, r) ==
    IF Len(r) = 0 THEN FALSE
    ELSE IF Len(l) = 0 THEN TRUE
    ELSE IF Head(l) = Head(r) THEN str_lt(Tail(l), Tail(r))
    ELSE Head(l) < Head(r)

\* format!("{}", n) for an unsigned integer
RECURSIVE ToDigits(_)
ToDigits(n) ==
    IF n < 10 THEN <<CharCode("0") + n>>
    ELSE ToDigits(n \div 10) \o <<CharCode("0") + (n % 10)>>

\* format!("{}", n) for a signed integer
ToSigned(n) ==
    IF n < 0 THEN <<CharCode("-")>> \o ToDigits(0 - n) ELSE ToDigits(n)

\* ------------------------------------------------------------------ f64

RECURSIVE Pow10(_)
Pow10(n) == IF n = 0 THEN 1 ELSE 10 * Pow10(n - 1)

\* An f64 is modelled by the decimal it was written as: <<m, e>> stands
\* for m * 10^e, with m not a multiple of 10 (0 is <<0, 0>>).  The rounding
\* of a decimal to the nearest binary float and the sign of zero are not
\* modelled.
RECURSIVE F64(_, _)
F64(m, e) ==
    IF m = 0 THEN <<0, 0>>
    ELSE IF m % 10 = 0 THEN F64(m \div 10, e + 1)
    ELSE <<m, e>>

\* i as f64
as_f64(i) == F64(i, 0)

f64_eq(a, b) == a = b

f64_lt(a, b) ==
    LET e == Min(a[2], b[2])
    IN  a[1] * Pow10(a[2] - e) < b[1] * Pow10(b[2] - e)

\* ------------------------------------------------------------ JSON values

\* serde_json::Value.  A Number keeps serde_json's three classes; a Float's
\* payload is an f64.
JNull == <<"Null">>
JBool(b) == <<"Bool", b>>
JInt(i) == <<"Number", IF i < 0 THEN "NegInt" ELSE "PosInt", i>>
JFloat(f) == <<"Number", "Float", f>>
JString(s) == <<"String", s>>
JArray(elems) == <<"Array", elems>>
JObject(members) == <<"Object", members>>

is_array(value) == value[1] = "Array"
is_object(value) == value[1] = "Object"

\* Vec::get
vec_get(v, i) == IF i >= 0 /\ i < Len(v) THEN Some(v[i + 1]) ELSE None

\* Map::get
RECURSIVE map_get(_, _)
map_get(members, name) ==
    IF Len(members) = 0 THEN None
    ELSE IF Head(members)[1] = name THEN Some(Head(members)[2])
    ELSE map_get(Tail(members), name)

\* Value::get(&String): a member of an object, None on anything else
Value_get(value, name) ==
    IF is_object(value) THEN map_get(value[2], name) ELSE None

\* ------------------------------------------------------------ the query AST

Name(name) == <<"Name", name>>
Index(index) == <<"Index", index>>
Slice(start, stop, step) == <<"Slice", start, stop, step>>
Wild == <<"Wild">>
Filter(expression) == <<"Filter", expression>>

Child(selectors) == <<"Child", selectors>>
Recursive(selectors) == <<"Recursive", selectors>>

FxTrue == <<"True">>
FxFalse == <<"False">>
FxNull == <<"Null">>
FxString(value) == <<"String", value>>
FxInt(value) == <<"Int", value>>
FxFloat(value) == <<"Float", value>>
FxNot(expression) == <<"Not", expression>>
FxLogical(left, operator, right) == <<"Logical", left, operator, right>>
FxComparison(left, operator, right) == <<"Comparison", left, operator, right>>
FxRelativeQuery(query) == <<"RelativeQuery", query>>
FxRootQuery(query) == <<"RootQuery", query>>
FxFunction(name, args) == <<"Function", name, args>>

\* A variant of is_singular that takes any single selector for a singular
\* one: the evaluation of what it accepts may yield several nodes.
RECURSIVE is_singular_any_selector(_)
is_singular_any_selector(segments) ==
    IF Len(segments) = 0 THEN TRUE
    ELSE IF Head(segments)[1] = "Child" /\ Len(Head(segments)[2]) = 1
         THEN is_singular_any_selector(Tail(segments))
         ELSE FALSE

\* Query::is_singular of the parser's AST: the loop over the segments
RECURSIVE is_singular(_)
is_singular(segments) ==
    IF Len(segments) = 0 THEN TRUE
    ELSE LET segment == Head(segments)
         IN  IF segment[1] = "Child"
             THEN IF Len(segment[2]) = 1
                     /\ segment[2][1][1] \in {"Name", "Index"}
                  THEN is_singular(Tail(segments))
                  ELSE FALSE
             ELSE FALSE

\* Query::is_singular of the evaluator crates: segments.iter().all(..)
Query_is_singular(segments) ==
    \A i \in 1..Len(segments) :
        IF segments[i][1] = "Child"
        THEN Len(segments[i][2]) = 1
             /\ segments[i][2][1][1] \in {"Name", "Index"}
        ELSE FALSE

\* ------------------------------------------------- function extensions

count_name == Str(<<"c", "o", "u", "n", "t">>)
length_name == Str(<<"l", "e", "n", "g", "t", "h">>)
match_name == Str(<<"m", "a", "t", "c", "h">>)
search_name == Str(<<"s", "e", "a", "r", "c", "h">>)
value_name == Str(<<"v", "a", "l", "u", "e">>)

FunctionSignature(param_types, return_type) ==
    [param_types |-> param_types, return_type |-> return_type]

\* The function register of a new Parser and of the standard Environment.
standard_functions ==
    [n \in {count_name, length_name, match_name, search_name, value_name} |->
        CASE n = count_name -> FunctionSignature(<<"Nodes">>, "Value")
          [] n = length_name -> FunctionSignature(<<"Value">>, "Value")
          [] n = match_name -> FunctionSignature(<<"Value", "Value">>, "Logical")
          [] n = search_name -> FunctionSignature(<<"Value", "Value">>, "Logical")
          [] n = value_name -> FunctionSignature(<<"Nodes">>, "Value")]

\* ---------------------------------------------- filter expression results

\* A value no execution produces: unreachable!() and unwrap() of None end
\* the evaluation.
unreachable == CHOOSE x \in {} : TRUE

\* The model's i64 is 16 bits wide, which keeps a u64 above i64::MAX an
\* integer of the model.
I64Max == 2 ^ 15 - 1

\* serde_json's Number::is_i64 and Number::as_i64: a PosInt above i64::MAX
\* is no i64
Number_as_i64(n) == IF n[2] = "PosInt" /\ n[3] > I64Max THEN None ELSE Some(n[3])

\* FilterExpressionResult::from_json_value.  n.as_i64().unwrap() panics on
\* None: the result is then the mark <<"Panic">>, which ends the evaluation.
from_json_value(value) ==
    CASE value[1] = "Bool" -> <<"Bool", value[2]>>
      [] value[1] = "Null" -> <<"Null">>
      [] value[1] = "Number" ->
            IF value[2] = "Float" THEN <<"Float", value[3]>>
            ELSE IF IsSome(Number_as_i64(value))
            THEN <<"Int", Unwrap(Number_as_i64(value))>>
            ELSE <<"Panic">>
      [] value[1] = "String" -> <<"String", value[2]>>
      [] value[1] = "Array" -> <<"Array", value>>
      [] value[1] = "Object" -> <<"Object", value>>

is_truthy(rv) ==
    CASE rv[1] = "Nothing" -> FALSE
      [] rv[1] = "Nodes" -> Len(rv[2]) # 0
      [] rv[1] = "Bool" -> rv[2] = TRUE
      [] OTHER -> TRUE

\* is_truthy_ref with every node list taken as true, the empty one too
is_truthy_ref_of_any_nodes(rv) ==
    CASE rv[1] = "Nothing" -> FALSE
      [] rv[1] = "Nodes" -> TRUE
      [] rv[1] = "Bool" -> rv[2] = TRUE
      [] OTHER -> TRUE

is_truthy_ref(rv) ==
    CASE rv[1] = "Nothing" -> FALSE
      [] rv[1] = "Nodes" -> Len(rv[2]) # 0
      [] rv[1] = "Bool" -> rv[2] = TRUE
      [] OTHER -> TRUE

logical(left, op, right) ==
    CASE op = "And" -> is_truthy(left) /\ is_truthy(right)
      [] op = "Or" -> is_truthy(left) \/ is_truthy(right)

nodes_or_singular(rv) ==
    IF rv[1] = "Nodes"
    THEN IF Len(rv[2]) = 1 THEN from_json_value(rv[2][1].value) ELSE rv
    ELSE rv

\* The match on (left, right), arm by arm.  An Int is compared with a Float
\* as an f64.
eq(left, right) ==
    CASE left[1] = "Nothing" /\ right[1] = "Nothing" -> TRUE
      [] left[1] = "Nodes" /\ right[1] = "Nothing" -> Len(left[2]) = 0
      [] left[1] = "Nothing" /\ right[1] = "Nodes" -> Len(right[2]) = 0
      [] (left[1] = "Nothing" /\ right[1] \notin {"Nothing", "Nodes"})
         \/ (right[1] = "Nothing" /\ left[1] \notin {"Nothing", "Nodes"}) -> FALSE
      [] left[1] = "Nodes" /\ right[1] = "Nodes" ->
            IF Len(left[2]) = 0 /\ Len(right[2]) = 0 THEN TRUE ELSE unreachable
      [] left[1] = "Int" /\ right[1] = "Int" -> left[2] = right[2]
      [] left[1] = "Float" /\ right[1] = "Float" -> f64_eq(left[2], right[2])
      [] left[1] = "Int" /\ right[1] = "Float" -> f64_eq(as_f64(left[2]), right[2])
      [] left[1] = "Float" /\ right[1] = "Int" -> f64_eq(left[2], as_f64(right[2]))
      [] left[1] = "Null" /\ right[1] = "Null" -> TRUE
      [] left[1] = "Bool" /\ right[1] = "Bool" -> left[2] = right[2]
      [] left[1] = "String" /\ right[1] = "String" -> left[2] = right[2]
      [] left[1] = "Array" /\ right[1] = "Array" -> left[2] = right[2]
      [] left[1] = "Object" /\ right[1] = "Object" -> left[2] = right[2]
      [] OTHER -> FALSE

lt(left, right) ==
    CASE left[1] = "String" /\ right[1] = "String" -> str_lt(left[2], right[2])
      [] left[1] = "Bool" /\ right[1] = "Bool" -> FALSE
      [] left[1] = "Int" /\ right[1] = "Int" -> left[2] < right[2]
      [] left[1] = "Float" /\ right[1] = "Float" -> f64_lt(left[2], right[2])
      [] left[1] = "Int" /\ right[1] = "Float" -> f64_lt(as_f64(left[2]), right[2])
      [] left[1] = "Float" /\ right[1] = "Int" -> f64_lt(left[2], as_f64(right[2]))
      [] OTHER -> FALSE

compare(left0, op, right0) ==
    LET left == nodes_or_singular(left0)
        right == nodes_or_singular(right0)
    IN  CASE op = "Eq" -> eq(left, right)
          [] op = "Ne" -> ~eq(left, right)
          [] op = "Lt" -> lt(left, right)
          [] op = "Gt" -> lt(right, left)
          [] op = "Ge" -> lt(right, left) \/ eq(left, right)
          [] op = "Le" -> lt(left, right) \/ eq(left, right)

\* index counts the arguments from 0
unpack_result(rv, param_types, index) ==
    IF param_types[index + 1] = "Nodes" THEN rv
    ELSE IF rv[1] = "Nodes"
         THEN CASE Len(rv[2]) = 0 -> <<"Nothing">>
                [] Len(rv[2]) = 1 -> from_json_value(rv[2][1].value)
                [] OTHER -> rv
         ELSE rv

\* Count::call
Count_call(args) ==
    IF args[1][1] = "Nodes" THEN <<"Int", Len(args[1][2])>> ELSE unreachable

\* Length::call (s.chars().count(), a.len(), o.len())
Length_call(args) ==
    CASE args[1][1] = "String" -> <<"Int", Len(args[1][2])>>
      [] args[1][1] = "Array" -> <<"Int", Len(args[1][2][2])>>
      [] args[1][1] = "Object" -> <<"Int", Len(args[1][2][2])>>
      [] OTHER -> <<"Nothing">>

\* Value::call
Value_call(args) ==
    IF args[1][1] = "Nodes"
    THEN IF Len(args[1][2]) = 1 THEN from_json_value(args[1][2][1].value)
         ELSE <<"Nothing">>
    ELSE unreachable

\* fn_ext.call(args) of the function registered under name
function_call(name, args) ==
    CASE name = count_name -> Count_call(args)
      [] name = length_name -> Length_call(args)
      [] name = value_name -> Value_call(args)

\* ------------------------------------------ the eager evaluator (serde)

\* The model's usize: index as usize of a negative index wraps around.
UsizeModulus == 2 ^ 16

Node(value, location) == [value |-> value, location |-> location]

\* format!("{}['{}']", self.location, loc)
new_child_member(self, value, loc) ==
    Node(value, self.location \o Str(<<"[", "'">>) \o loc \o Str(<<"'", "]">>))

\* format!("{}[{}]", self.location, loc)
new_child_element(self, value, loc) ==
    Node(value, self.location \o Str(<<"[">>) \o ToDigits(loc) \o Str(<<"]">>))

norm_index(index, length) ==
    IF index < 0 /\ length >= 0 - index
    THEN length + index
    ELSE index % UsizeModulus

\* A variant of visit that lists a node after its descendants.
RECURSIVE visit_descendants_first(_)
visit_descendants_first(node) ==
    (CASE is_object(node.value) ->
            Flatten([i \in 1..Len(node.value[2]) |->
                visit_descendants_first(new_child_member(node, node.value[2][i][2],
                                                         node.value[2][i][1]))])
       [] is_array(node.value) ->
            Flatten([i \in 1..Len(node.value[2]) |->
                visit_descendants_first(new_child_element(node, node.value[2][i], i - 1))])
       [] OTHER -> <<>>)
    \o <<node>>

RECURSIVE visit(_)
visit(node) ==
    <<node>> \o
    (CASE is_object(node.value) ->
            Flatten([i \in 1..Len(node.value[2]) |->
                visit(new_child_member(node, node.value[2][i][2],
                                       node.value[2][i][1]))])
       [] is_array(node.value) ->
            Flatten([i \in 1..Len(node.value[2]) |->
                visit(new_child_element(node, node.value[2][i], i - 1))])
       [] OTHER -> <<>>)

RECURSIVE try_fold(_, _, _)
RECURSIVE Segment_resolve(_, _, _)
RECURSIVE Selector_resolve(_, _, _)
RECURSIVE evaluate(_, _, _)

\* Query::find: the context's root is the value find is called with
find(query, value) == try_fold(query, <<Node(value, Str(<<"$">>))>>, value)

\* segments.iter().try_fold(nodes, |nodes, segment| segment.resolve(nodes, context))
try_fold(segments, nodes, root) ==
    IF Len(segments) = 0 THEN nodes
    ELSE try_fold(Tail(segments), Segment_resolve(Head(segments), nodes, root), root)

\* A variant of Segment::resolve that runs through the selectors first and
\* the input nodes second.
Segment_resolve_selector_major(self, nodes, root) ==
    LET inputs == IF self[1] = "Child" THEN nodes
                  ELSE Flatten([n \in 1..Len(nodes) |-> visit(nodes[n])])
    IN  Flatten([s \in 1..Len(self[2]) |->
            Flatten([n \in 1..Len(inputs) |->
                Selector_resolve(self[2][s], inputs[n], root)])])

Segment_resolve(self, nodes, root) ==
    CASE self[1] = "Child" ->
            Flatten([n \in 1..Len(nodes) |->
                Flatten([s \in 1..Len(self[2]) |->
                    Selector_resolve(self[2][s], nodes[n], root)])])
      [] self[1] = "Recursive" ->
            LET visited == Flatten([n \in 1..Len(nodes) |-> visit(nodes[n])])
            IN  Flatten([n \in 1..Len(visited) |->
                    Flatten([s \in 1..Len(self[2]) |->
                        Selector_resolve(self[2][s], visited[n], root)])])

Selector_resolve(self, node, root) ==
    CASE self[1] = "Name" ->
            LET v == Value_get(node.value, self[2])
            IN  IF IsSome(v) THEN <<new_child_member(node, Unwrap(v), self[2])>>
                ELSE <<>>
      [] self[1] = "Index" ->
            IF is_array(node.value)
            THEN LET array == node.value[2]
                     norm == norm_index(self[2], Len(array))
                     v == vec_get(array, norm)
                 IN  IF IsSome(v) THEN <<new_child_element(node, Unwrap(v), norm)>>
                     ELSE <<>>
            ELSE <<>>
      [] self[1] = "Slice" ->
            IF is_array(node.value)
            THEN LET sliced == slice(node.value[2], self[2], self[3], self[4])
                 IN  [k \in 1..Len(sliced) |->
                        new_child_element(node, sliced[k][2], sliced[k][1])]
            ELSE <<>>
      [] self[1] = "Wild" ->
            CASE is_array(node.value) ->
                    [i \in 1..Len(node.value[2]) |->
                        new_child_element(node, node.value[2][i], i - 1)]
              [] is_object(node.value) ->
                    [i \in 1..Len(node.value[2]) |->
                        new_child_member(node, node.value[2][i][2],
                                         node.value[2][i][1])]
              [] OTHER -> <<>>
      [] self[1] = "Filter" ->
            CASE is_array(node.value) ->
                    Flatten([i \in 1..Len(node.value[2]) |->
                        IF is_truthy_ref(evaluate(self[2], node.value[2][i], root))
                        THEN <<new_child_element(node, node.value[2][i], i - 1)>>
                        ELSE <<>>])
              [] is_object(node.value) ->
                    Flatten([i \in 1..Len(node.value[2]) |->
                        IF is_truthy_ref(evaluate(self[2], node.value[2][i][2], root))
                        THEN <<new_child_member(node, node.value[2][i][2],
                                                node.value[2][i][1])>>
                        ELSE <<>>])
              [] OTHER -> <<>>

\* FilterExpression::evaluate(current, context), context.root being root.
\* The embedded queries call Query::find, which makes the value it is given
\* the root of a new context.
evaluate(self, current, root) ==
    CASE self[1] = "True" -> <<"Bool", TRUE>>
      [] self[1] = "False" -> <<"Bool", FALSE>>
      [] self[1] = "Null" -> <<"Null">>
      [] self[1] = "String" -> <<"String", self[2]>>
      [] self[1] = "Int" -> <<"Int", self[2]>>
      [] self[1] = "Float" -> <<"Float", self[2]>>
      [] self[1] = "Not" ->
            IF ~is_truthy(evaluate(self[2], current, root))
            THEN <<"Bool", TRUE>> ELSE <<"Bool", FALSE>>
      [] self[1] = "Logical" ->
            IF logical(evaluate(self[2], current, root), self[3],
                       evaluate(self[4], current, root))
            THEN <<"Bool", TRUE>> ELSE <<"Bool", FALSE>>
      [] self[1] = "Comparison" ->
            IF compare(evaluate(self[2], current, root), self[3],
                       evaluate(self[4], current, root))
            THEN <<"Bool", TRUE>> ELSE <<"Bool", FALSE>>
      [] self[1] = "RelativeQuery" -> <<"Nodes", find(self[2], current)>>
      [] self[1] = "RootQuery" -> <<"Nodes", find(self[2], root)>>
      [] self[1] = "Function" ->
            LET param_types == standard_functions[self[2]].param_types
                args == [i \in 1..Len(self[3]) |->
                            unpack_result(evaluate(self[3][i], current, root),
                                          param_types, i - 1)]
            IN  function_call(self[2], args)

\* ------------------------ the evaluator with node locations (locations)

\* ConsList: a persistent list.  append gives a new list that shares the
\* list it is applied to and leaves that list as it was; iter runs from the
\* element appended last to the one appended first.
ConsList_new == <<>>
ConsList_append(list, element) == <<element>> \o list
ConsList_iter(list) == list

\* location.append(PathElement::Index(index)); Node { value, location }
new_array_element(value, location, index) ==
    LET appended == ConsList_append(location, <<"Index", index>>)
    IN  Node(value, location)

\* location.append(PathElement::Name(name)); Node { value, location }
new_object_member(value, location, name) ==
    LET appended == ConsList_append(location, <<"Name", name>>)
    IN  Node(value, location)

\* Node::path
path(self) ==
    LET elements == ConsList_iter(self.location)
        rendered == [i \in 1..Len(elements) |->
                        IF elements[i][1] = "Index"
                        THEN Str(<<"[">>) \o ToDigits(elements[i][2]) \o Str(<<"]">>)
                        ELSE Str(<<"[", "'">>) \o elements[i][2] \o Str(<<"'", "]">>)]
    IN  Str(<<"$">>) \o Flatten([i \in 1..Len(rendered) |->
                              rendered[Len(rendered) + 1 - i]])

\* Selector::resolve(env, value, root, location).  The filter expression is
\* evaluated as above: this crate's FilterExpression::evaluate has the same
\* arms, and its embedded queries call this crate's Query::find the same way.
loc_Selector_resolve(self, value, root, location) ==
    CASE self[1] = "Name" ->
            LET v == Value_get(value, self[2])
            IN  IF IsSome(v) THEN <<new_object_member(Unwrap(v), location, self[2])>>
                ELSE <<>>
      [] self[1] = "Index" ->
            IF is_array(value)
            THEN LET norm == norm_index(self[2], Len(value[2]))
                     v == vec_get(value[2], norm)
                 IN  IF IsSome(v) THEN <<new_array_element(Unwrap(v), location, norm)>>
                     ELSE <<>>
            ELSE <<>>
      [] self[1] = "Slice" ->
            IF is_array(value)
            THEN LET sliced == slice(value[2], self[2], self[3], self[4])
                 IN  [k \in 1..Len(sliced) |->
                        new_array_element(sliced[k][2], location, sliced[k][1])]
            ELSE <<>>
      [] self[1] = "Wild" ->
            CASE is_array(value) ->
                    [i \in 1..Len(value[2]) |->
                        new_array_element(value[2][i], location, i - 1)]
              [] is_object(value) ->
                    [i \in 1..Len(value[2]) |->
                        new_object_member(value[2][i][2], location, value[2][i][1])]
              [] OTHER -> <<>>
      [] self[1] = "Filter" ->
            CASE is_array(value) ->
                    Flatten([i \in 1..Len(value[2]) |->
                        IF is_truthy(evaluate(self[2], value[2][i], root))
                        THEN <<new_array_element(value[2][i], location, i - 1)>>
                        ELSE <<>>])
              [] is_object(value) ->
                    Flatten([i \in 1..Len(value[2]) |->
                        IF is_truthy(evaluate(self[2], value[2][i][2], root))
                        THEN <<new_object_member(value[2][i][2], location,
                                                 value[2][i][1])>>
                        ELSE <<>>])
              [] OTHER -> <<>>

RECURSIVE loc_visit(_, _, _, _)
RECURSIVE loc_descend(_, _, _, _)

\* Segment::visit: the selectors on this value, then the descent
loc_visit(value, selectors, root, location) ==
    Flatten([s \in 1..Len(selectors) |->
        loc_Selector_resolve(selectors[s], value, root, location)])
    \o loc_descend(value, selectors, root, location)

\* Segment::descend: location.append(..); self.visit(.., &location)
loc_descend(value, selectors, root, location) ==
    CASE is_array(value) ->
            Flatten([i \in 1..Len(value[2]) |->
                LET appended == ConsList_append(location, <<"Index", i - 1>>)
                IN  loc_visit(value[2][i], selectors, root, location)])
      [] is_object(value) ->
            Flatten([i \in 1..Len(value[2]) |->
                LET appended == ConsList_append(location, <<"Name", value[2][i][1]>>)
                IN  loc_visit(value[2][i][2], selectors, root, location)])
      [] OTHER -> <<>>

loc_Segment_resolve(self, nodes, root) ==
    CASE self[1] = "Child" ->
            Flatten([n \in 1..Len(nodes) |->
                Flatten([s \in 1..Len(self[2]) |->
                    loc_Selector_resolve(self[2][s], nodes[n].value, root,
                                         nodes[n].location)])])
      [] self[1] = "Recursive" ->
            Flatten([n \in 1..Len(nodes) |->
                loc_visit(nodes[n].value, self[2], root, nodes[n].location)])

\* ---------------------------------------------- the lazy evaluator (iter)

\* A NodeIter is the sequence of the nodes it has still to yield.

\* SelectorIter::new: the match on the selector is that of Selector::resolve
SelectorIter_new(root, selector, node) == Selector_resolve(selector, node, root)

\* visit_iter: the node, then its descendants in document order
visit_iter(node) == visit(node)

SegmentIter(selectors, it) == [selectors |-> selectors, it |-> it]

\* SegmentIter::new(env, root, segment, nodes), nodes drained into a list
SegmentIter_new(root, segment, nodes) ==
    LET visited == IF segment[1] = "Child" THEN nodes
                   ELSE Flatten([n \in 1..Len(nodes) |-> visit_iter(nodes[n])])
        its == Flatten([n \in 1..Len(visited) |->
                   [s \in 1..Len(segment[2]) |->
                       SelectorIter_new(root, segment[2][s], visited[n])]])
    IN  IF Len(its) = 0 THEN SegmentIter(<<>>, <<>>)
        ELSE SegmentIter(Tail(its), Head(its))

\* SegmentIter::next taking the selector iterator pushed last, not first
RECURSIVE SegmentIter_next_from_the_back(_)
SegmentIter_next_from_the_back(self) ==
    IF Len(self.it) # 0
    THEN [self |-> SegmentIter(self.selectors, Tail(self.it)),
          item |-> Some(Head(self.it))]
    ELSE IF Len(self.selectors) # 0
    THEN SegmentIter_next_from_the_back(
            SegmentIter(SubSeq(self.selectors, 1, Len(self.selectors) - 1),
                        self.selectors[Len(self.selectors)]))
    ELSE [self |-> self, item |-> None]

\* SegmentIter::next: the iterator after the call and the item returned
RECURSIVE SegmentIter_next(_)
SegmentIter_next(self) ==
    IF Len(self.it) # 0
    THEN [self |-> SegmentIter(self.selectors, Tail(self.it)),
          item |-> Some(Head(self.it))]
    ELSE IF Len(self.selectors) # 0
    THEN SegmentIter_next(SegmentIter(Tail(self.selectors), Head(self.selectors)))
    ELSE [self |-> self, item |-> None]

\* ------------------------------------------------------- the slice harness

SliceArrays == {[i \in 1..n |-> 10 + i] : n \in 0..MaxLen}
SliceParts == {None} \cup {Some(v) : v \in (0 - MaxAbs)..MaxAbs}

InitSlice ==
    /\ sl_array \in SliceArrays
    /\ sl_start \in SliceParts
    /\ sl_stop \in SliceParts
    /\ sl_step \in SliceParts
    /\ sl_result = <<>>
    /\ sl_pc = "call"
    /\ IdleEval
    /\ IdleParse
    /\ IdleRegex
    /\ IdleLex

\* Selector::Slice on an array node: slice(array, start, stop, step)
SliceCall ==
    /\ sl_pc = "call"
    /\ sl_result' = slice(sl_array, sl_start, sl_stop, sl_step)
    /\ sl_pc' = "done"
    /\ UNCHANGED <<sl_array, sl_start, sl_stop, sl_step>>
    /\ UNCHANGED <<varsEval, varsParse, varsRegex, varsLex>>

NextSlice == SliceCall

SpecSlice == InitSlice /\ [][NextSlice]_vars

\* ------------------------------------------------ the evaluation harness

\* Most segments of a query the harness evaluates.
MaxSegs == 2

key_a == Str(<<"a">>)
key_b == Str(<<"b">>)
key_quote == Str(<<"a", "'", "b">>)
key_backslash == Str(<<"c", "\\", "d">>)

\* The documents: objects, arrays, scalars, nested up to three levels.
Docs ==
    << \* {"a": 1, "b": {"b": 2}}
       JObject(<< <<key_a, JInt(1)>>,
                  <<key_b, JObject(<< <<key_b, JInt(2)>> >>)>> >>),
       \* [{"a": 1}, {"a": 2, "b": [1]}, 3]
       JArray(<< JObject(<< <<key_a, JInt(1)>> >>),
                 JObject(<< <<key_a, JInt(2)>>, <<key_b, JArray(<<JInt(1)>>)>> >>),
                 JInt(3) >>),
       \* {"a": [1, 2, 3], "b": "x"}
       JObject(<< <<key_a, JArray(<<JInt(1), JInt(2), JInt(3)>>)>>,
                  <<key_b, JString(Str(<<"x">>))>> >>),
       \* [[1, 2], [3]]
       JArray(<< JArray(<<JInt(1), JInt(2)>>), JArray(<<JInt(3)>>) >>),
       \* 1
       JInt(1),
       \* []
       JArray(<<>>),
       \* {"a": {"a": {"a": null}}}
       JObject(<< <<key_a, JObject(<< <<key_a,
                    JObject(<< <<key_a, JNull>> >>)>> >>)>> >>),
       \* ["a", "b", true, null, 1.5]
       JArray(<< JString(Str(<<"a">>)), JString(Str(<<"b">>)), JBool(TRUE), JNull,
                 JFloat(F64(15, -1)) >>),
       \* {"b": {"a": 1, "b": 2}, "a": -1}
       JObject(<< <<key_b, JObject(<< <<key_a, JInt(1)>>, <<key_b, JInt(2)>> >>)>>,
                  <<key_a, JInt(0 - 1)>> >>),
       \* {"a'b": 1, "c\\d": [2]}
       JObject(<< <<key_quote, JInt(1)>>, <<key_backslash, JArray(<<JInt(2)>>)>> >>) >>

q_a == <<Child(<<Name(key_a)>>)>>
q_b == <<Child(<<Name(key_b)>>)>>
q_current == <<>>

\* The filter expressions of the harness's queries.
FilterExprs ==
    << FxRelativeQuery(q_a),                                     \* @.a
       FxRootQuery(q_a),                                         \* $.a
       FxComparison(FxRelativeQuery(q_a), "Eq", FxInt(1)),           \* @.a == 1
       FxComparison(FxRelativeQuery(q_current), "Lt", FxInt(3)),     \* @ < 3
       FxComparison(FxRelativeQuery(q_a), "Ne", FxRootQuery(q_a)),   \* @.a != $.a
       FxComparison(FxRelativeQuery(q_current), "Eq", FxString(Str(<<"a">>))),  \* @ == 'a'
       FxComparison(FxRelativeQuery(q_current), "Ge", FxFloat(F64(12, -1))),  \* @ >= 1.2
       FxComparison(FxRelativeQuery(q_current), "Le", FxRootQuery(q_a)),   \* @ <= $.a
       FxNot(FxRelativeQuery(q_a)),                                \* !@.a
       FxLogical(FxRelativeQuery(q_a), "And", FxRelativeQuery(q_b)), \* @.a && @.b
       FxLogical(FxRelativeQuery(q_a), "Or", FxRelativeQuery(q_b)),  \* @.a || @.b
       \* @[?$.a]
       FxRelativeQuery(<<Child(<<Filter(FxRootQuery(q_a))>>)>>),
       \* @[?@ == $.a]
       FxRelativeQuery(<<Child(<<Filter(
           FxComparison(FxRelativeQuery(q_current), "Eq", FxRootQuery(q_a)))>>)>>),
       \* $.b[?$.a]
       FxRootQuery(<<Child(<<Name(key_b)>>), Child(<<Filter(FxRootQuery(q_a))>>)>>),
       \* count(@.*) == 2
       FxComparison(FxFunction(count_name, <<FxRelativeQuery(<<Child(<<Wild>>)>>)>>),
                  "Eq", FxInt(2)),
       \* length(@) > 1
       FxComparison(FxFunction(length_name, <<FxRelativeQuery(q_current)>>), "Gt", FxInt(1)),
       \* value(@..a) == 1
       FxComparison(FxFunction(value_name,
                           <<FxRelativeQuery(<<Recursive(<<Name(key_a)>>)>>)>>),
                  "Eq", FxInt(1)) >>

\* The segments a query of the harness may start with.
SegHead ==
    << Child(<<Name(key_a)>>), Child(<<Name(key_b)>>),
       Child(<<Index(0)>>), Child(<<Index(1)>>),
       Child(<<Index(0 - 1)>>), Child(<<Index(0 - 4)>>),
       Child(<<Slice(Some(1), None, None)>>),
       Child(<<Slice(None, None, Some(0 - 1))>>),
       Child(<<Slice(Some(0), Some(2), None)>>),
       Child(<<Wild>>),
       Child(<<Name(key_a), Name(key_b)>>), Child(<<Index(0), Index(0)>>),
       Child(<<Wild, Wild>>), Child(<<Wild, Name(key_a)>>),
       Recursive(<<Wild>>), Recursive(<<Name(key_a)>>), Recursive(<<Index(0)>>),
       Recursive(<<Name(key_a), Name(key_b)>>),
       Recursive(<<Filter(FxRelativeQuery(q_a))>>) >>
    \o [i \in 1..Len(FilterExprs) |-> Child(<<Filter(FilterExprs[i])>>)]

\* The segments it may go on with.
SegTail ==
    << Child(<<Name(key_a)>>), Child(<<Name(key_b)>>),
       Child(<<Index(0)>>), Child(<<Index(0 - 1)>>),
       Child(<<Wild>>), Child(<<Wild, Index(0)>>),
       Recursive(<<Wild>>) >>

RECURSIVE Tails(_)
Tails(n) ==
    IF n = 0 THEN {<<>>}
    ELSE {<<SegTail[i]>> \o t : i \in 1..Len(SegTail), t \in Tails(n - 1)}

Queries ==
    {<<>>} \cup
    {<<SegHead[i]>> \o t :
        i \in 1..Len(SegHead), t \in UNION {Tails(k) : k \in 0..(MaxSegs - 1)}}

\* Query::find and QueryIter::new: the root node, before the first segment
InitEval ==
    /\ IdleSlice
    /\ IdleParse
    /\ IdleRegex
    /\ IdleLex
    /\ ev_impl \in {"serde", "locations", "iter"}
    /\ \E d \in 1..Len(Docs) : ev_doc = Docs[d]
    /\ ev_query \in Queries
    /\ ev_seg = 1
    /\ ev_prev = <<>>
    /\ ev_nodes = CASE ev_impl = "serde" -> <<Node(ev_doc, Str(<<"$">>))>>
                    [] ev_impl = "locations" -> <<Node(ev_doc, ConsList_new)>>
                    [] ev_impl = "iter" -> <<>>
    /\ it_selectors = <<>>
    /\ it_it = IF ev_impl = "iter" THEN <<Node(ev_doc, Str(<<"$">>))>> ELSE <<>>
    /\ it_done = FALSE

\* One step of the fold of Query::find (serde): segment.resolve(nodes, context)
SerdeResolve ==
    /\ ev_impl = "serde"
    /\ ev_seg <= Len(ev_query)
    /\ ev_nodes' = Segment_resolve(ev_query[ev_seg], ev_nodes, ev_doc)
    /\ ev_prev' = ev_nodes
    /\ ev_seg' = ev_seg + 1
    /\ UNCHANGED <<ev_impl, ev_doc, ev_query, it_selectors, it_it, it_done>>
    /\ UNCHANGED <<varsSlice, varsParse, varsRegex, varsLex>>

\* One step of the fold of Query::find (locations): segment.resolve(nodes, env, value)
LocResolve ==
    /\ ev_impl = "locations"
    /\ ev_seg <= Len(ev_query)
    /\ ev_nodes' = loc_Segment_resolve(ev_query[ev_seg], ev_nodes, ev_doc)
    /\ ev_prev' = ev_nodes
    /\ ev_seg' = ev_seg + 1
    /\ UNCHANGED <<ev_impl, ev_doc, ev_query, it_selectors, it_it, it_done>>
    /\ UNCHANGED <<varsSlice, varsParse, varsRegex, varsLex>>

\* One call of next() on the current SegmentIter, by the loop of the next
\* SegmentIter::new or by the caller of the query iterator.
IterNext ==
    /\ ev_impl = "iter"
    /\ ~it_done
    /\ LET r == SegmentIter_next(SegmentIter(it_selectors, it_it))
       IN  /\ it_selectors' = r.self.selectors
           /\ it_it' = r.self.it
           /\ ev_nodes' = IF IsSome(r.item) THEN Append(ev_nodes, Unwrap(r.item))
                          ELSE ev_nodes
           /\ it_done' = ~IsSome(r.item)
    /\ UNCHANGED <<ev_impl, ev_doc, ev_query, ev_seg, ev_prev>>
    /\ UNCHANGED <<varsSlice, varsParse, varsRegex, varsLex>>

\* One step of the fold of QueryIter::new: SegmentIter::new on the nodes the
\* previous iterator yielded.
IterSegmentNew ==
    /\ ev_impl = "iter"
    /\ it_done
    /\ ev_seg <= Len(ev_query)
    /\ LET it == SegmentIter_new(ev_doc, ev_query[ev_seg], ev_nodes)
       IN  /\ it_selectors' = it.selectors
           /\ it_it' = it.it
    /\ ev_prev' = ev_nodes
    /\ ev_nodes' = <<>>
    /\ it_done' = FALSE
    /\ ev_seg' = ev_seg + 1
    /\ UNCHANGED <<ev_impl, ev_doc, ev_query>>
    /\ UNCHANGED <<varsSlice, varsParse, varsRegex, varsLex>>

NextEval == SerdeResolve \/ LocResolve \/ IterNext \/ IterSegmentNew

SpecEval == InitEval /\ [][NextEval]_vars

\* The evaluation has applied every segment and collected every node.
EvalDone ==
    /\ ev_impl # "none"
    /\ ev_seg > Len(ev_query)
    /\ ev_impl = "iter" => it_done

NodeValues(nodes) == [i \in 1..Len(nodes) |-> nodes[i].value]

\* ----------------------------------------------------------------- C1

\* Python's slice.indices for a sequence of length L (step # 0) and the
\* indices range(start, stop, step) runs through.
PyStart(start, step, L) ==
    IF IsSome(start)
    THEN IF Unwrap(start) < 0
         THEN Max(Unwrap(start) + L, IF step < 0 THEN -1 ELSE 0)
         ELSE Min(Unwrap(start), IF step < 0 THEN L - 1 ELSE L)
    ELSE IF step < 0 THEN L - 1 ELSE 0

PyStop(stop, step, L) ==
    IF IsSome(stop)
    THEN IF Unwrap(stop) < 0
         THEN Max(Unwrap(stop) + L, IF step < 0 THEN -1 ELSE 0)
         ELSE Min(Unwrap(stop), IF step < 0 THEN L - 1 ELSE L)
    ELSE IF step < 0 THEN -1 ELSE L

PyRange(start, stop, step, L) ==
    LET st == IF IsSome(step) THEN Unwrap(step) ELSE 1
    IN  IF st = 0 THEN <<>>
        ELSE IF st > 0
        THEN RangeStepBy(PyStart(start, st, L), PyStop(stop, st, L), st)
        ELSE WhileAbove(PyStart(start, st, L), PyStop(stop, st, L), st)

PySlice(array, start, stop, step) ==
    LET idx == PyRange(start, stop, step, Len(array))
    IN  [k \in 1..Len(idx) |-> <<idx[k], array[idx[k] + 1]>>]

\* C1: for every array and every slice [start:stop:step], the selected
\* elements and their order are those of Python's A[start:stop:step]; a
\* step of 0 or an empty array selects nothing.
C1_SliceIsPythonSlice ==
    sl_pc = "done" => sl_result = PySlice(sl_array, sl_start, sl_stop, sl_step)

\* ----------------------------------------------------------------- C2

\* The evaluation the claim describes, on values: an embedded query keeps
\* the root the top-level evaluation was given, whatever its depth.
Rfc_children(value) ==
    CASE is_array(value) -> value[2]
      [] is_object(value) -> [i \in 1..Len(value[2]) |-> value[2][i][2]]
      [] OTHER -> <<>>

RECURSIVE Rfc_descendants(_)
Rfc_descendants(value) ==
    <<value>> \o Flatten([i \in 1..Len(Rfc_children(value)) |->
                            Rfc_descendants(Rfc_children(value)[i])])

RECURSIVE Rfc_query(_, _, _)
RECURSIVE Rfc_select(_, _, _)
RECURSIVE Rfc_evaluate(_, _, _)

Rfc_nodes(values) == <<"Nodes", [i \in 1..Len(values) |-> Node(values[i], <<>>)]>>

Rfc_select(selector, value, root) ==
    CASE selector[1] = "Name" ->
            IF IsSome(Value_get(value, selector[2]))
            THEN <<Unwrap(Value_get(value, selector[2]))>> ELSE <<>>
      [] selector[1] = "Index" ->
            IF is_array(value)
               /\ IsSome(vec_get(value[2], norm_index(selector[2], Len(value[2]))))
            THEN <<Unwrap(vec_get(value[2], norm_index(selector[2], Len(value[2]))))>>
            ELSE <<>>
      [] selector[1] = "Slice" ->
            IF is_array(value)
            THEN LET sliced == slice(value[2], selector[2], selector[3], selector[4])
                 IN  [k \in 1..Len(sliced) |-> sliced[k][2]]
            ELSE <<>>
      [] selector[1] = "Wild" -> Rfc_children(value)
      [] selector[1] = "Filter" ->
            Flatten([i \in 1..Len(Rfc_children(value)) |->
                IF is_truthy(Rfc_evaluate(selector[2], Rfc_children(value)[i], root))
                THEN <<Rfc_children(value)[i]>> ELSE <<>>])

Rfc_query(segments, values, root) ==
    IF Len(segments) = 0 THEN values
    ELSE LET inputs == IF Head(segments)[1] = "Child" THEN values
                       ELSE Flatten([n \in 1..Len(values) |->
                                        Rfc_descendants(values[n])])
             selectors == Head(segments)[2]
             outputs == Flatten([n \in 1..Len(inputs) |->
                            Flatten([s \in 1..Len(selectors) |->
                                Rfc_select(selectors[s], inputs[n], root)])])
         IN  Rfc_query(Tail(segments), outputs, root)

Rfc_evaluate(expr, current, root) ==
    CASE expr[1] \in {"True", "False", "Null", "String", "Int", "Float"} ->
            evaluate(expr, current, root)
      [] expr[1] = "Not" ->
            <<"Bool", ~is_truthy(Rfc_evaluate(expr[2], current, root))>>
      [] expr[1] = "Logical" ->
            <<"Bool", logical(Rfc_evaluate(expr[2], current, root), expr[3],
                              Rfc_evaluate(expr[4], current, root))>>
      [] expr[1] = "Comparison" ->
            <<"Bool", compare(Rfc_evaluate(expr[2], current, root), expr[3],
                              Rfc_evaluate(expr[4], current, root))>>
      [] expr[1] = "RelativeQuery" -> Rfc_nodes(Rfc_query(expr[2], <<current>>, root))
      [] expr[1] = "RootQuery" -> Rfc_nodes(Rfc_query(expr[2], <<root>>, root))
      [] expr[1] = "Function" ->
            function_call(expr[2],
                [i \in 1..Len(expr[3]) |->
                    unpack_result(Rfc_evaluate(expr[3][i], current, root),
                                  standard_functions[expr[2]].param_types, i - 1)])

\* C2: in each evaluator, a `$` query embedded in a filter is evaluated
\* against the document given to the top-level evaluation, at every nesting
\* depth, and an `@` query against the child being tested: the values a
\* query selects are those of the evaluation that keeps the root.
C2_RootQueryKeepsTheRoot ==
    EvalDone => NodeValues(ev_nodes) = Rfc_query(ev_query, <<ev_doc>>, ev_doc)

\* ----------------------------------------------------------------- C7

\* C7: a query is_singular accepts (every segment a child segment with one
\* name or index selector) yields at most one node on any document.
C7_SingularYieldsAtMostOne ==
    (EvalDone /\ (is_singular(ev_query) \/ Query_is_singular(ev_query)))
        => Len(ev_nodes) <= 1

\* A singular query of two segments has selected its one node.
C7_Witness ==
    /\ EvalDone
    /\ is_singular(ev_query) /\ Query_is_singular(ev_query)
    /\ Len(ev_query) = 2
    /\ Len(ev_nodes) = 1
    /\ ev_nodes[1].value # ev_doc

\* ----------------------------------------------------------------- C8

Reverse(s) == [i \in 1..Len(s) |-> s[Len(s) + 1 - i]]

\* The value reached from value by taking the path elements in order.
RECURSIVE Follow(_, _)
Follow(value, elements) ==
    IF Len(elements) = 0 THEN Some(value)
    ELSE LET element == Head(elements)
             next == IF element[1] = "Name" THEN Value_get(value, element[2])
                     ELSE IF is_array(value) THEN vec_get(value[2], element[2])
                     ELSE None
         IN  IF IsSome(next) THEN Follow(Unwrap(next), Tail(elements)) ELSE None

\* C8: the location of every node of a node list is the sequence of member
\* names and array indices that leads from the query argument to the node's
\* value: following it from the root reaches that value.
C8_LocationLeadsToValue ==
    ev_impl = "locations" =>
        \A i \in 1..Len(ev_nodes) :
            Follow(ev_doc, Reverse(ConsList_iter(ev_nodes[i].location)))
                = Some(ev_nodes[i].value)

\* ----------------------------------------------------------------- C10

\* The nodes selector s of the segment yields from input node n.
C10_Yield(segment, n, s) ==
    IF ev_impl = "locations"
    THEN loc_Selector_resolve(segment[2][s], ev_prev[n].value, ev_doc,
                              ev_prev[n].location)
    ELSE Selector_resolve(segment[2][s], ev_prev[n], ev_doc)

\* The yields of the first p (input node, selector) pairs, the pairs taken
\* input node by input node and, for one input node, selector by selector.
RECURSIVE C10_Concat(_, _)
C10_Concat(segment, p) ==
    IF p = 0 THEN <<>>
    ELSE C10_Concat(segment, p - 1)
         \o C10_Yield(segment, ((p - 1) \div Len(segment[2])) + 1,
                               ((p - 1) % Len(segment[2])) + 1)

\* A child segment has just been applied and its nodes collected.
C10_AfterChild ==
    /\ ev_impl # "none"
    /\ ev_seg > 1
    /\ ev_query[ev_seg - 1][1] = "Child"
    /\ ev_impl = "iter" => it_done

\* C10: the node list after a child segment is the concatenation, over the
\* input nodes in order, of what each selector yields from that node, in
\* selector order, with nothing reordered or removed.
C10_ChildSegmentConcatenates ==
    C10_AfterChild =>
        ev_nodes = C10_Concat(ev_query[ev_seg - 1],
                              Len(ev_prev) * Len(ev_query[ev_seg - 1][2]))

\* Two selectors on two input nodes or more, and a node selected twice.
C10_Witness ==
    /\ C10_AfterChild
    /\ ev_impl = "serde"
    /\ Len(ev_prev) >= 2
    /\ Len(ev_query[ev_seg - 1][2]) >= 2
    /\ \E i, j \in 1..Len(ev_nodes) : i < j /\ ev_nodes[i] = ev_nodes[j]

\* The same in the lazy evaluator.
C10_WitnessIter ==
    /\ C10_AfterChild
    /\ ev_impl = "iter"
    /\ Len(ev_prev) >= 2
    /\ Len(ev_query[ev_seg - 1][2]) >= 2
    /\ \E i, j \in 1..Len(ev_nodes) : i < j /\ ev_nodes[i] = ev_nodes[j]

\* ------------------------------------------------------ results and errors

\* What a call gives back: Ok(..) or Err(..) of a Result, or the panic that
\* ends the thread (a failed debug_assert!, todo!(), an arithmetic overflow
\* in a build with overflow checks).  POk also carries the TokenStream as
\* the call leaves it.
ROk(val) == [tag |-> "Ok", val |-> val]
RErr(err) == [tag |-> "Err", err |-> err]
RPanic(msg) == [tag |-> "Panic", msg |-> msg]
POk(val, it) == [tag |-> "Ok", val |-> val, it |-> it]

\* A message is kept as its format string and its arguments:
\* format!(text, args..).  An argument is itself a message, or the
\* characters of a displayed char, String or number.
Fmt(text, args) == [text |-> text, chars |-> <<>>, args |-> args]
Chars(s) == [text |-> "{}", chars |-> s, args |-> <<>>]

\* JSONPathError { error, msg, index }; index is what the caller passes, a
\* span.
JSONPathError(error, msg, index) == [error |-> error, msg |-> msg, index |-> index]
JSONPathError_syntax(msg, index) == JSONPathError("SyntaxError", msg, index)
JSONPathError_typ(msg, index) == JSONPathError("TypeError", msg, index)
JSONPathError_name(msg, index) == JSONPathError("NameError", msg, index)

\* ------------------------------------------------------------------ tokens

\* pub const EOQ: char = NUL
EOQ == 0

Token(kind, start, end) == [kind |-> kind, span |-> <<start, end>>]

\* impl Display for TokenType
TokenType_fmt(kind) ==
    CASE kind[1] = "Eoq" -> Fmt("'end of query'", <<>>)
      [] kind[1] = "Error" -> Fmt("error: {}", <<kind[2]>>)
      [] kind[1] = "Colon" -> Fmt("';'", <<>>)
      [] kind[1] = "Comma" -> Fmt("','", <<>>)
      [] kind[1] = "DoubleDot" -> Fmt("'..'", <<>>)
      [] kind[1] = "Filter" -> Fmt("'?'", <<>>)
      [] kind[1] = "Index" -> Fmt("'{}'", <<Chars(kind[2])>>)
      [] kind[1] = "LBracket" -> Fmt("'['", <<>>)
      [] kind[1] = "Name" -> Fmt("'{}'", <<Chars(kind[2])>>)
      [] kind[1] = "RBracket" -> Fmt("']'", <<>>)
      [] kind[1] = "Root" -> Fmt("'$'", <<>>)
      [] kind[1] = "Wild" -> Fmt("'*'", <<>>)
      [] kind[1] = "And" -> Fmt("'&&'", <<>>)
      [] kind[1] = "Current" -> Fmt("'@'", <<>>)
      [] kind[1] = "DoubleQuoteString" -> Fmt("'{}'", <<Chars(kind[2])>>)
      [] kind[1] = "Eq" -> Fmt("'=='", <<>>)
      [] kind[1] = "False" -> Fmt("'false'", <<>>)
      [] kind[1] = "Float" -> Fmt("{}", <<Chars(kind[2])>>)
      [] kind[1] = "Function" -> Fmt("'{}'", <<Chars(kind[2])>>)
      [] kind[1] = "Ge" -> Fmt("'>='", <<>>)
      [] kind[1] = "Gt" -> Fmt("'>'", <<>>)
      [] kind[1] = "Int" -> Fmt("{}", <<Chars(kind[2])>>)
      [] kind[1] = "Le" -> Fmt("<='", <<>>)
      [] kind[1] = "LParen" -> Fmt("'('", <<>>)
      [] kind[1] = "Lt" -> Fmt("'<'", <<>>)
      [] kind[1] = "Ne" -> Fmt("'!='", <<>>)
      [] kind[1] = "Not" -> Fmt("'!'", <<>>)
      [] kind[1] = "Null" -> Fmt("'null'", <<>>)
      [] kind[1] = "Or" -> Fmt("'or'", <<>>)
      [] kind[1] = "RParen" -> Fmt("')'", <<>>)
      [] kind[1] = "SingleQuoteString" -> Fmt("'{}'", <<Chars(kind[2])>>)
      [] kind[1] = "True" -> Fmt("'true'", <<>>)

\* ------------------------------------------------------------------- lexer

\* A predicate on chars is a function of the code point, so that it can be
\* handed to accept_if and accept_run as the code hands them a closure.
is_name_first[ch \in Nat] ==
    \/ ch >= 65 /\ ch <= 90
    \/ ch = 95
    \/ ch >= 97 /\ ch <= 122
    \/ ch >= 128

is_name_char[ch \in Nat] ==
    \/ ch >= 48 /\ ch <= 57
    \/ ch >= 65 /\ ch <= 90
    \/ ch = 95
    \/ ch >= 97 /\ ch <= 122
    \/ ch >= 128

is_digit[ch \in Nat] == ch >= 48 /\ ch <= 57

is_function_name_first[ch \in Nat] == ch >= 97 /\ ch <= 122

is_function_name_char[ch \in Nat] ==
    (ch >= 48 /\ ch <= 57) \/ ch = 95 \/ (ch >= 97 /\ ch <= 122)

is_escape_char[ch \in Nat] ==
    ch \in {CharCode("b"), CharCode("f"), CharCode("n"), CharCode("r"), CharCode("t"), CharCode("u"), CharCode("/"), CharCode("\\")}

\* ' ' | '\n' | '\r' | '\t'
is_whitespace_char[ch \in Nat] == ch \in {32, 10, 13, 9}

\* char::len_utf8
len_utf8(ch) ==
    IF ch < 128 THEN 1 ELSE IF ch < 2048 THEN 2 ELSE IF ch < 65536 THEN 3 ELSE 4

\* query.char_indices(): the number of chars the iterator has yielded and
\* the byte offset of the next one
char_indices(query) == [taken |-> 0, offset |-> 0]

\* Lexer::new.  start and pos are byte offsets.  debug_assertions is the build's
\* cfg(debug_assertions), which also turns the overflow checks on; panic
\* holds the message of the panic that ended the run, if any.
Lexer_new(query, debug_assertions) ==
    [query |-> query, tokens |-> <<>>, chars |-> char_indices(query),
     start |-> 0, pos |-> 0,
     filter_depth |-> 0, paren_stack |-> <<>>,
     debug_assertions |-> debug_assertions, panic |-> None]

emit(l, t) ==
    [l EXCEPT !.tokens = Append(@, Token(t, l.start, l.pos)), !.start = l.pos]

\* self.query.get(self.start..self.pos): start and pos are char boundaries
Lexer_value(l) ==
    LET \* the number of chars before the byte offset target, counted from
        \* the n chars that end at offset
        RECURSIVE char_index(_, _, _)
        char_index(target, n, offset) ==
            IF offset >= target \/ n >= Len(l.query) THEN n
            ELSE char_index(target, n + 1, offset + len_utf8(l.query[n + 1]))
        first == char_index(l.start, 0, 0)
        last == char_index(l.pos, first, l.start)
    IN  SubSeq(l.query, first + 1, last)

\* Lexer::next, the Lexer it leaves; the char it returns is the one peek
\* gave before, None for EOQ at the end of the query
next(l) ==
    IF l.chars.taken < Len(l.query)
    THEN LET ch == l.query[l.chars.taken + 1]
         IN  [l EXCEPT !.pos = l.chars.offset + len_utf8(ch),
                       !.chars = [taken |-> @.taken + 1,
                                  offset |-> @.offset + len_utf8(ch)]]
    ELSE l

ignore(l) == [l EXCEPT !.start = l.pos]

peek(l) == IF l.chars.taken < Len(l.query) THEN l.query[l.chars.taken + 1] ELSE EOQ

\* accept, accept_if and accept_run give the Lexer they leave and the bool
\* they return.
accept(l, ch) ==
    IF peek(l) = ch THEN [l |-> next(l), ok |-> TRUE] ELSE [l |-> l, ok |-> FALSE]

accept_if(l, pred) ==
    IF pred[peek(l)] THEN [l |-> next(l), ok |-> TRUE] ELSE [l |-> l, ok |-> FALSE]

accept_run(l, pred) ==
    LET RECURSIVE loop(_, _)
        loop(ll, accepted) ==
            IF pred[peek(ll)] THEN loop(next(ll), TRUE)
            ELSE [l |-> ll, ok |-> accepted]
    IN  loop(l, FALSE)

ignore_whitespace(l) ==
    IF l.debug_assertions /\ l.pos # l.start
    THEN [l |-> [l EXCEPT !.panic = Some("must emit or ignore before eating whitespace")],
          ok |-> FALSE]
    ELSE LET r == accept_run(l, is_whitespace_char)
         IN  IF r.ok THEN [l |-> ignore(r.l), ok |-> TRUE]
             ELSE [l |-> r.l, ok |-> FALSE]

\* A lex_ function gives the Lexer it leaves and the State it returns.
\* "Panic" is no State of the code: it stands for the run the panic ended.
LexStep(l, state) == [l |-> l, state |-> state]

error(l, msg) ==
    LexStep([l EXCEPT !.tokens = Append(@, Token(<<"Error", msg>>, l.start, l.pos))],
            "Error")

\* (the decrement taking two instead of one)
filter_depth_decrement_by_two(l) ==
    [l EXCEPT !.filter_depth = @ - 2]

\* l.filter_depth -= 1 on a u32: a panic where overflow is checked, else
\* the wrapped value, kept as its residue -1 (so that > 0 is # 0).
filter_depth_decrement(l) ==
    IF l.filter_depth = 0 /\ l.debug_assertions
    THEN [l EXCEPT !.panic = Some("attempt to subtract with overflow")]
    ELSE [l EXCEPT !.filter_depth = @ - 1]

lex_root(l) ==
    LET a == accept(l, CharCode("$"))
    IN  IF a.ok THEN LexStep(emit(a.l, <<"Root">>), "LexSegment")
        ELSE error(next(l), Fmt("expected '$', found '{}'", <<Chars(<<peek(l)>>)>>))

lex_segment(l) ==
    LET w == ignore_whitespace(l)
        l1 == w.l
        d1 == accept(l1, CharCode("."))
        d2 == accept(d1.l, CharCode("."))
        b == accept(l1, CharCode("["))
    IN  IF IsSome(l1.panic) THEN LexStep(l1, "Panic")
        ELSE IF w.ok /\ peek(l1) = EOQ
        THEN error(l1, Fmt("unexpected trailing whitespace", <<>>))
        ELSE IF d1.ok
        THEN IF d2.ok THEN LexStep(emit(d2.l, <<"DoubleDot">>), "LexDescendantSegment")
             ELSE LexStep(d1.l, "LexShorthandSegment")
        ELSE IF b.ok THEN LexStep(emit(b.l, <<"LBracket">>), "LexInsideBracketedSegment")
        ELSE IF l1.filter_depth # 0 THEN LexStep(l1, "LexInsideFilter")
        ELSE IF peek(l1) = EOQ THEN LexStep(emit(next(l1), <<"Eoq">>), "EndOfQuery")
        ELSE error(next(l1),
                   Fmt("expected '.', '..' or a bracketed selection, found '{}'",
                       <<Chars(<<peek(l1)>>)>>))

lex_descendant_segment(l) ==
    LET w == accept(l, CharCode("*"))
        b == accept(l, CharCode("["))
        n == accept_if(l, is_name_first)
        n2 == accept_run(n.l, is_name_char)
    IN  IF w.ok THEN LexStep(emit(w.l, <<"Wild">>), "LexSegment")
        ELSE IF b.ok THEN LexStep(emit(b.l, <<"LBracket">>), "LexInsideBracketedSegment")
        ELSE IF n.ok THEN LexStep(emit(n2.l, <<"Name", Lexer_value(n2.l)>>), "LexSegment")
        ELSE error(l, Fmt("unexpected descendant selection token '{}'",
                          <<Chars(<<peek(l)>>)>>))

lex_shorthand_selector(l) ==
    LET l0 == ignore(l)
        ws == accept_run(l0, is_whitespace_char)
        w == accept(l0, CharCode("*"))
        n == accept_if(l0, is_name_first)
        n2 == accept_run(n.l, is_name_char)
    IN  IF ws.ok THEN error(ws.l, Fmt("unexpected whitespace after dot", <<>>))
        ELSE IF w.ok THEN LexStep(emit(w.l, <<"Wild">>), "LexSegment")
        ELSE IF n.ok THEN LexStep(emit(n2.l, <<"Name", Lexer_value(n2.l)>>), "LexSegment")
        ELSE error(next(l0), Fmt("unexpected shorthand selector '{}'",
                                 <<Chars(<<peek(l0)>>)>>))

lex_inside_bracketed_segment(l) ==
    LET w == ignore_whitespace(l)
        l1 == w.l
        ch == peek(l1)
        l2 == next(l1)
        neg == accept_run(l2, is_digit)
        pos == accept_run(l1, is_digit)
    IN  IF IsSome(l1.panic) THEN LexStep(l1, "Panic")
        ELSE CASE ch = CharCode("]") ->
                    LexStep(emit(l2, <<"RBracket">>),
                            IF l1.filter_depth # 0 THEN "LexInsideFilter"
                            ELSE "LexSegment")
               [] ch = CharCode("*") -> LexStep(emit(l2, <<"Wild">>), "LexInsideBracketedSegment")
               [] ch = CharCode("?") ->
                    LexStep([emit(l2, <<"Filter">>) EXCEPT !.filter_depth = @ + 1],
                            "LexInsideFilter")
               [] ch = CharCode(",") -> LexStep(emit(l2, <<"Comma">>), "LexInsideBracketedSegment")
               [] ch = CharCode(":") -> LexStep(emit(l2, <<"Colon">>), "LexInsideBracketedSegment")
               [] ch = CharCode("'") -> LexStep(l2, "LexInsideSingleQuotedString")
               [] ch = CharCode("\"") -> LexStep(l2, "LexInsideDoubleQuotedString")
               [] ch = CharCode("-") ->
                    IF neg.ok
                    THEN LexStep(emit(neg.l, <<"Index", Lexer_value(neg.l)>>),
                                 "LexInsideBracketedSegment")
                    ELSE error(neg.l, Fmt("expected a digit after '-', found '{}'",
                                          <<Chars(<<peek(neg.l)>>)>>))
               [] ch = EOQ -> error(l1, Fmt("unclosed bracketed selection", <<>>))
               [] OTHER ->
                    IF pos.ok
                    THEN LexStep(emit(pos.l, <<"Index", Lexer_value(pos.l)>>),
                                 "LexInsideBracketedSegment")
                    ELSE error(pos.l, Fmt("unexpected '{}' in bracketed selection",
                                          <<Chars(<<peek(pos.l)>>)>>))

lex_number(l) ==
    LET int == accept_run(l, is_digit)
        dot == accept(int.l, CharCode("."))
        frac == accept_run(dot.l, is_digit)
        fexp == accept(frac.l, CharCode("e"))
        fsign == accept_if(fexp.l, [ch \in Nat |-> ch = CharCode("+") \/ ch = CharCode("-")])
        fdigits == accept_run(fsign.l, is_digit)
        iexp == accept(int.l, CharCode("e"))
        iminus == accept(iexp.l, CharCode("-"))
        mdigits == accept_run(iminus.l, is_digit)
        iplus == accept(iexp.l, CharCode("+"))
        pdigits == accept_run(iplus.l, is_digit)
    IN  IF ~int.ok
        THEN error(int.l, Fmt("expected a digit, found '{}'", <<Chars(<<peek(int.l)>>)>>))
        ELSE IF dot.ok
        THEN IF ~frac.ok
             THEN error(frac.l,
                        Fmt("a fractional digit is required after a decimal point", <<>>))
             ELSE IF fexp.ok
             THEN IF ~fdigits.ok
                  THEN error(fdigits.l,
                             Fmt("at least one exponent digit is required", <<>>))
                  ELSE LexStep(emit(fdigits.l, <<"Float", Lexer_value(fdigits.l)>>),
                               "LexInsideFilter")
             ELSE LexStep(emit(frac.l, <<"Float", Lexer_value(frac.l)>>), "LexInsideFilter")
        ELSE IF iexp.ok
        THEN IF iminus.ok
             THEN IF ~mdigits.ok
                  THEN error(mdigits.l,
                             Fmt("at least one exponent digit is required", <<>>))
                  ELSE LexStep(emit(mdigits.l, <<"Float", Lexer_value(mdigits.l)>>),
                               "LexInsideFilter")
             ELSE IF ~pdigits.ok
                  THEN error(pdigits.l,
                             Fmt("at least one exponent digit is required", <<>>))
                  ELSE LexStep(emit(pdigits.l, <<"Int", Lexer_value(pdigits.l)>>),
                               "LexInsideFilter")
        ELSE LexStep(emit(int.l, <<"Int", Lexer_value(int.l)>>), "LexInsideFilter")

lex_inside_filter(l) ==
    LET w == ignore_whitespace(l)
        l1 == w.l
        ch == peek(l1)
        l2 == next(l1)
        dec == filter_depth_decrement(l1)
        eq2 == accept(l2, CharCode("="))
        amp == accept(l2, CharCode("&"))
        bar == accept(l2, CharCode("|"))
        name1 == accept_run(l1, is_function_name_first)
        name2 == accept_run(name1.l, is_function_name_char)
        word == Lexer_value(name2.l)
    IN  IF IsSome(l1.panic) THEN LexStep(l1, "Panic")
        ELSE CASE ch = EOQ -> error(l1, Fmt("unclosed bracketed selection", <<>>))
               [] ch = CharCode("]") ->
                    IF IsSome(dec.panic) THEN LexStep(dec, "Panic")
                    ELSE IF Len(dec.paren_stack) = 1
                    THEN error(dec, Fmt("unbalanced parentheses", <<>>))
                    ELSE LexStep(dec, "LexInsideBracketedSegment")
               [] ch = CharCode(",") ->
                    LET l3 == emit(l2, <<"Comma">>)
                        dec3 == filter_depth_decrement(l3)
                    IN  IF Len(l3.paren_stack) # 0 THEN LexStep(l3, "LexInsideFilter")
                        ELSE IF IsSome(dec3.panic) THEN LexStep(dec3, "Panic")
                        ELSE LexStep(dec3, "LexInsideBracketedSegment")
               [] ch = CharCode("'") -> LexStep(l2, "LexInsideSingleQuotedFilterString")
               [] ch = CharCode("\"") -> LexStep(l2, "LexInsideDoubleQuotedFilterString")
               [] ch = CharCode("(") ->
                    LET l3 == emit(l2, <<"LParen">>)
                        n == Len(l3.paren_stack)
                    IN  LexStep(IF n # 0
                                THEN [l3 EXCEPT !.paren_stack[n] = @ + 1]
                                ELSE l3,
                                "LexInsideFilter")
               [] ch = CharCode(")") ->
                    LET l3 == emit(l2, <<"RParen">>)
                        n == Len(l3.paren_stack)
                    IN  LexStep(IF n # 0
                                THEN IF l3.paren_stack[n] = 1
                                     THEN [l3 EXCEPT !.paren_stack = SubSeq(@, 1, n - 1)]
                                     ELSE [l3 EXCEPT !.paren_stack[n] = @ - 1]
                                ELSE l3,
                                "LexInsideFilter")
               [] ch = CharCode("$") -> LexStep(emit(l2, <<"Root">>), "LexSegment")
               [] ch = CharCode("@") -> LexStep(emit(l2, <<"Current">>), "LexSegment")
               [] ch = CharCode(".") -> LexStep(l1, "LexSegment")
               [] ch = CharCode("!") ->
                    LexStep(emit(eq2.l, IF eq2.ok THEN <<"Ne">> ELSE <<"Not">>),
                            "LexInsideFilter")
               [] ch = CharCode("=") ->
                    IF eq2.ok THEN LexStep(emit(eq2.l, <<"Eq">>), "LexInsideFilter")
                    ELSE error(eq2.l, Fmt("expected '==', found '='", <<>>))
               [] ch = CharCode("<") ->
                    LexStep(emit(eq2.l, IF eq2.ok THEN <<"Le">> ELSE <<"Lt">>),
                            "LexInsideFilter")
               [] ch = CharCode(">") ->
                    LexStep(emit(eq2.l, IF eq2.ok THEN <<"Ge">> ELSE <<"Gt">>),
                            "LexInsideFilter")
               [] ch = CharCode("&") ->
                    IF amp.ok THEN LexStep(emit(amp.l, <<"And">>), "LexInsideFilter")
                    ELSE error(amp.l, Fmt("unexpected '&', did you mean '&&'?", <<>>))
               [] ch = CharCode("|") ->
                    IF bar.ok THEN LexStep(emit(bar.l, <<"Or">>), "LexInsideFilter")
                    ELSE error(bar.l, Fmt("unexpected '|', did you mean '||'?", <<>>))
               [] ch = CharCode("-") -> lex_number(l2)
               [] OTHER ->
                    IF is_digit[ch]
                    THEN \* lex_number(l); the State it returns is dropped
                         LexStep(lex_number(l1).l, "LexInsideFilter")
                    ELSE IF name1.ok
                    THEN CASE word = Str(<<"t", "r", "u", "e">>) ->
                                LexStep(emit(name2.l, <<"True">>), "LexInsideFilter")
                           [] word = Str(<<"f", "a", "l", "s", "e">>) ->
                                LexStep(emit(name2.l, <<"False">>), "LexInsideFilter")
                           [] word = Str(<<"n", "u", "l", "l">>) ->
                                LexStep(emit(name2.l, <<"Null">>), "LexInsideFilter")
                           [] OTHER ->
                                IF peek(name2.l) = CharCode("(")
                                THEN LET l3 == [name2.l EXCEPT
                                                  !.paren_stack = Append(@, 1)]
                                         l4 == emit(l3, <<"Function", word>>)
                                     IN  LexStep(ignore(next(l4)), "LexInsideFilter")
                                ELSE error(name2.l,
                                           Fmt("expected a keyword or function call", <<>>))
                    ELSE error(l1, Fmt("unexpected filter expression token '{}'",
                                       <<Chars(<<ch>>)>>))

lex_string(l, quote, next_state) ==
    LET \* The loop of lex_string.
        RECURSIVE lex_string_loop(_)
        lex_string_loop(lx) ==
            LET ch == peek(lx)
                l2 == next(lx)
                esc == accept_if(l2, [c \in Nat |-> is_escape_char[c] \/ c = quote])
            IN  CASE ch = CharCode("\\") ->
                        IF ~esc.ok THEN error(esc.l, Fmt("invalid escape sequence", <<>>))
                        ELSE lex_string_loop(esc.l)
                  [] ch = EOQ ->
                        error(lx, Fmt("unclosed string starting at index {}",
                                     <<Chars(ToDigits(lx.start))>>))
                  [] OTHER ->
                        IF ch = quote
                        THEN CASE quote = CharCode("'") ->
                                    LexStep(ignore(next(emit(lx, <<"SingleQuoteString", Lexer_value(lx)>>))),
                                            next_state)
                               [] quote = CharCode("\"") ->
                                    LexStep(ignore(next(emit(lx, <<"DoubleQuoteString", Lexer_value(lx)>>))),
                                            next_state)
                               [] OTHER -> LexStep([lx EXCEPT !.panic = Some("unexpected quote delimiter")],
                                                   "Panic")
                        ELSE lex_string_loop(l2)
        l0 == ignore(l)
    IN  IF peek(l0) = EOQ
        THEN LexStep([l0 EXCEPT !.panic =
                        Some("not yet implemented: handle end of query after open quote")],
                     "Panic")
        ELSE lex_string_loop(l0)

\* One turn of the loop of Lexer::run.
Lexer_step(l, state) ==
    CASE state = "LexRoot" -> lex_root(l)
      [] state = "LexSegment" -> lex_segment(l)
      [] state = "LexDescendantSegment" -> lex_descendant_segment(l)
      [] state = "LexShorthandSegment" -> lex_shorthand_selector(l)
      [] state = "LexInsideBracketedSegment" -> lex_inside_bracketed_segment(l)
      [] state = "LexInsideFilter" -> lex_inside_filter(l)
      [] state = "LexInsideSingleQuotedString" ->
            lex_string(l, CharCode("'"), "LexInsideBracketedSegment")
      [] state = "LexInsideDoubleQuotedString" ->
            lex_string(l, CharCode("\""), "LexInsideBracketedSegment")
      [] state = "LexInsideSingleQuotedFilterString" ->
            lex_string(l, CharCode("'"), "LexInsideFilter")
      [] state = "LexInsideDoubleQuotedFilterString" ->
            lex_string(l, CharCode("\""), "LexInsideFilter")

\* Lexer::run from a given state, to the Lexer it leaves
RECURSIVE Lexer_run(_, _)
Lexer_run(l, state) ==
    LET continue(r) == Lexer_run(r.l, r.state)
    IN  IF state \in {"Error", "EndOfQuery", "Panic"} THEN l
        ELSE continue(Lexer_step(l, state))

\* tokenize: its Vec<Token>, or the panic
tokenize(query, debug_assertions) ==
    LET tokens(lexer) ==
            IF IsSome(lexer.panic) THEN RPanic(Unwrap(lexer.panic))
            ELSE ROk(lexer.tokens)
    IN  tokens(Lexer_run(Lexer_new(query, debug_assertions), "LexRoot"))

lex(query, debug_assertions) ==
    LET last(tokens) == tokens[Len(tokens)]
        result(tokens) ==
            IF tokens.tag = "Panic" THEN tokens
            ELSE IF Len(tokens.val) > 0 /\ last(tokens.val).kind[1] = "Error"
            THEN RErr(JSONPathError_syntax(last(tokens.val).kind[2],
                                           last(tokens.val).span))
            ELSE ROk(tokens.val)
    IN  result(tokenize(query, debug_assertions))

\* ------------------------------------------------------------------ parser

EOF_TOKEN == [kind |-> <<"Eoq">>, span |-> <<0, 1>>]

PRECEDENCE_LOWEST == 1
PRECEDENCE_LOGICAL_OR == 3
PRECEDENCE_LOGICAL_AND == 4
PRECEDENCE_RELATIONAL == 5
PRECEDENCE_LOGICAL_NOT == 7

\* A TokenStream: the tokens and the number of them already taken.
TokenStream(tokens) == [tokens |-> tokens, taken |-> 0]

\* TokenStream::next: the stream it leaves; the token it returns is the
\* one TokenStream_peek gave before
TokenStream_next(it) ==
    IF it.taken < Len(it.tokens) THEN [it EXCEPT !.taken = @ + 1] ELSE it

TokenStream_peek(it) ==
    IF it.taken < Len(it.tokens) THEN it.tokens[it.taken + 1] ELSE EOF_TOKEN

\* Parser::new.  index_range is kept as the digits of its two ends,
\* -(2^53 - 1) and 2^53 - 1; debug_assertions is the build's
\* cfg(debug_assertions).
Parser_new(debug_assertions) ==
    [index_range |-> <<Str(<<"-", "9", "0", "0", "7", "1", "9", "9", "2", "5", "4", "7", "4", "0", "9", "9", "1">>), Str(<<"9", "0", "0", "7", "1", "9", "9", "2", "5", "4", "7", "4", "0", "9", "9", "1">>)>>,
     functions |-> standard_functions,
     debug_assertions |-> debug_assertions]

\* HashMap::insert
add_function(self, name, params, returns) ==
    [self EXCEPT !.functions =
        [n \in (DOMAIN self.functions) \cup {name} |->
            IF n = name THEN FunctionSignature(params, returns)
            ELSE self.functions[n]]]

\* self.functions.get(name)
functions_get(self, name) ==
    IF name \in DOMAIN self.functions THEN Some(self.functions[name]) ELSE None

\* FilterExpression { span, kind }.  When an expression is boxed into its
\* parent only its kind is kept: the AST carries no spans.
FilterExpression(span, kind) == [span |-> span, kind |-> kind]

is_literal(expr) ==
    expr.kind[1] \in {"True", "False", "Null", "String", "Int", "Float"}

\* precedence with && below ||
precedence_and_below_or(kind) ==
    CASE kind[1] = "And" -> PRECEDENCE_LOGICAL_OR
      [] kind[1] \in {"Eq", "Ge", "Gt", "Le", "Lt", "Ne"} -> PRECEDENCE_RELATIONAL
      [] kind[1] = "Not" -> PRECEDENCE_LOGICAL_NOT
      [] kind[1] = "Or" -> PRECEDENCE_LOGICAL_AND
      [] OTHER -> PRECEDENCE_LOWEST

precedence(kind) ==
    CASE kind[1] = "And" -> PRECEDENCE_LOGICAL_AND
      [] kind[1] \in {"Eq", "Ge", "Gt", "Le", "Lt", "Ne"} -> PRECEDENCE_RELATIONAL
      [] kind[1] = "Not" -> PRECEDENCE_LOGICAL_NOT
      [] kind[1] = "Or" -> PRECEDENCE_LOGICAL_OR
      [] OTHER -> PRECEDENCE_LOWEST

\* value.replace("\\'", "'")
RECURSIVE replace_escaped_quote(_)
replace_escaped_quote(value) ==
    IF Len(value) = 0 THEN <<>>
    ELSE IF Len(value) >= 2 /\ value[1] = CharCode("\\") /\ value[2] = CharCode("'")
    THEN <<CharCode("'")>> \o replace_escaped_quote(SubSeq(value, 3, Len(value)))
    ELSE <<value[1]>> \o replace_escaped_quote(Tail(value))

\* u32::from_str_radix(digits, 16) of four chars: hex digits, after an
\* optional plus sign
from_str_radix_16(digits) ==
    LET \* The value of a hex digit, None for any other char.
        hex_digit(ch) ==
            IF ch >= 48 /\ ch <= 57 THEN Some(ch - 48)
            ELSE IF ch >= 65 /\ ch <= 70 THEN Some(ch - 55)
            ELSE IF ch >= 97 /\ ch <= 102 THEN Some(ch - 87)
            ELSE None
        body == IF digits[1] = CharCode("+") THEN Tail(digits) ELSE digits
        RECURSIVE val(_, _)
        val(s, acc) ==
            IF Len(s) = 0 THEN acc
            ELSE val(Tail(s), 16 * acc + Unwrap(hex_digit(Head(s))))
    IN  IF Len(body) > 0 /\ \A i \in 1..Len(body) : IsSome(hex_digit(body[i]))
        THEN Some(val(body, 0))
        ELSE None

\* char::from_u32
char_from_u32(codepoint) ==
    IF (codepoint >= 55296 /\ codepoint <= 57343) \/ codepoint > 1114111
    THEN None
    ELSE Some(codepoint)

unescape_string(value, token_span) ==
    LET \* The while loop of unescape_string; index counts the chars from 0.
        RECURSIVE unescape_loop(_, _, _)
        unescape_loop(chars, index, rv) ==
            LET length == Len(chars)
                start_index == token_span[1] + index
                c == chars[index + 1]
                index1 == index + 1
                e == chars[index1 + 1]
                index2 == index1 + 1
                high == from_str_radix_16(SubSeq(chars, index2 + 1, index2 + 4))
                pair == index2 + 5 < length /\ chars[index2 + 4 + 1] = CharCode("\\")
                        /\ chars[index2 + 5 + 1] = CharCode("u")
                low == from_str_radix_16(SubSeq(chars, index2 + 6 + 1, index2 + 10))
                codepoint == IF pair
                             THEN 65536 + (((Unwrap(high) % 1024) * 1024)
                                           + (Unwrap(low) % 1024))
                             ELSE Unwrap(high)
                index3 == IF pair THEN index2 + 6 ELSE index2
                unescaped == char_from_u32(codepoint)
                invalid_u(end) ==
                    RErr(JSONPathError_syntax(Fmt("invalid \\uXXXX escape", <<>>),
                                              <<start_index, end>>))
                simple(ch) == unescape_loop(chars, index1 + 1, Append(rv, ch))
            IN  IF ~(index < length) THEN ROk(rv)
                ELSE IF c = CharCode("\\")
                THEN IF index + 1 >= length
                     THEN RErr(JSONPathError_syntax(Fmt("invalid escape", <<>>),
                                                    <<start_index, index + 1>>))
                     ELSE CASE e = CharCode("\"") -> simple(CharCode("\""))
                            [] e = CharCode("\\") -> simple(CharCode("\\"))
                            [] e = CharCode("/") -> simple(CharCode("/"))
                            [] e = CharCode("b") -> simple(12)
                            [] e = CharCode("f") -> simple(8)
                            [] e = CharCode("n") -> simple(10)
                            [] e = CharCode("r") -> simple(13)
                            [] e = CharCode("t") -> simple(9)
                            [] e = CharCode("u") ->
                                IF index1 + 4 >= length THEN invalid_u(length)
                                ELSE IF ~IsSome(high) THEN invalid_u(index2 + 4)
                                ELSE IF pair /\ index2 + 9 >= length THEN invalid_u(length)
                                ELSE IF pair /\ ~IsSome(low) THEN invalid_u(index2 + 10)
                                ELSE IF ~IsSome(unescaped) THEN invalid_u(index3 + 3)
                                ELSE IF Unwrap(unescaped) <= 31
                                THEN RErr(JSONPathError_syntax(Fmt("invalid character", <<>>),
                                                               <<start_index, start_index + 1>>))
                                ELSE unescape_loop(chars, index3 + 3 + 1,
                                                   Append(rv, Unwrap(unescaped)))
                            [] OTHER ->
                                RErr(JSONPathError_syntax(Fmt("invalid escape", <<>>),
                                                          <<start_index, index1 + 1>>))
                ELSE IF c <= 31
                THEN RErr(JSONPathError_syntax(Fmt("invalid character", <<>>),
                                               <<start_index, index + 1>>))
                ELSE unescape_loop(chars, index + 1, Append(rv, c))
    IN  unescape_loop(value, 0, <<>>)

\* The number a run of decimal digits writes.
RECURSIVE digits_value(_)
digits_value(digits) ==
    IF Len(digits) = 0 THEN 0
    ELSE 10 * digits_value(SubSeq(digits, 1, Len(digits) - 1))
         + (digits[Len(digits)] - 48)

\* Whether the number written by the digits a is above the one written by
\* b; neither has a redundant leading zero.
digits_gt(a, b) ==
    Len(a) > Len(b) \/ (Len(a) = Len(b) /\ str_lt(b, a))

\* value.parse::<i64>(): an optional sign and decimal digits, within i64.
\* The result is <<negative, digits>>.
parse_i64(value) ==
    LET \* without the redundant leading zeros
        RECURSIVE strip_zeros(_)
        strip_zeros(d) ==
            IF Len(d) > 1 /\ d[1] = CharCode("0") THEN strip_zeros(Tail(d))
            ELSE d
        signed == Len(value) > 0 /\ value[1] \in {CharCode("-"), CharCode("+")}
        digits == IF signed THEN Tail(value) ELSE value
        negative == signed /\ value[1] = CharCode("-")
        magnitude == strip_zeros(digits)
    IN  IF Len(digits) = 0 \/ \E i \in 1..Len(digits) : ~is_digit[digits[i]]
        THEN None
        ELSE IF digits_gt(magnitude, Str(<<"9", "2", "2", "3", "3", "7", "2", "0", "3", "6", "8", "5", "4", "7", "7", "5", "8", "0", "7">>))
                /\ ~(negative /\ magnitude = Str(<<"9", "2", "2", "3", "3", "7", "2", "0", "3", "6", "8", "5", "4", "7", "7", "5", "8", "0", "8">>))
        THEN None
        ELSE Some(<<negative, magnitude>>)

\* The i64 that parse::<i64>() returns.  The integers of the model end
\* below 2^31: <<n>> is the i64 n, and an i64 of ten digits or more is
\* <<text, "wide">>, held as the decimal text that writes it (its sign and
\* its digits without a leading zero).
i64_of(negative, magnitude) ==
    IF Len(magnitude) > 9
    THEN <<(IF negative THEN Str(<<"-">>) ELSE <<>>) \o magnitude, "wide">>
    ELSE <<IF negative THEN 0 - digits_value(magnitude) ELSE digits_value(magnitude)>>

\* format!("{}", i) for such an i64
i64_fmt(i) == IF Len(i) = 2 THEN i[1] ELSE ToSigned(i[1])

\* parse_i_json_int without its test of a leading zero
parse_i_json_int_leading_zeros(self, value, token_span) ==
    LET ranged(i) ==
            IF ~IsSome(i)
            THEN RErr(JSONPathError_syntax(Fmt("invalid index {grave}{}{grave}",
                                               <<Chars(value)>>), token_span))
            ELSE IF digits_gt(Unwrap(i)[2], self.index_range[2])
            THEN RErr(JSONPathError_syntax(Fmt("index out of range {grave}{}{grave}",
                                               <<Chars(value)>>), token_span))
            ELSE ROk(i64_of(Unwrap(i)[1], Unwrap(i)[2]))
    IN  ranged(parse_i64(value))

parse_i_json_int(self, value, token_span) ==
    LET ranged(i) ==
            IF ~IsSome(i)
            THEN RErr(JSONPathError_syntax(Fmt("invalid index {grave}{}{grave}",
                                               <<Chars(value)>>), token_span))
            ELSE IF digits_gt(Unwrap(i)[2], self.index_range[2])
            THEN RErr(JSONPathError_syntax(Fmt("index out of range {grave}{}{grave}",
                                               <<Chars(value)>>), token_span))
            ELSE ROk(i64_of(Unwrap(i)[1], Unwrap(i)[2]))
    IN  IF Len(value) > 1 /\ (value[1] = CharCode("0")
                              \/ SubSeq(value, 1, 2) = Str(<<"-", "0">>))
        THEN RErr(JSONPathError_syntax(Fmt("invalid index {grave}{}{grave}",
                                           <<Chars(value)>>), token_span))
        ELSE ranged(parse_i64(value))

\* value.parse::<f64>() of what the lexer emits as an Int or a Float:
\* [-]digits[.digits][e[+|-]digits].  None for any other text.
parse_f64(value) ==
    LET negative == Len(value) > 0 /\ value[1] = CharCode("-")
        unsigned == IF negative THEN Tail(value) ELSE value
        epos == {i \in 1..Len(unsigned) : unsigned[i] = CharCode("e")}
        ei == IF epos = {} THEN Len(unsigned) + 1 ELSE CHOOSE i \in epos : TRUE
        mantissa == SubSeq(unsigned, 1, ei - 1)
        exponent == SubSeq(unsigned, ei + 1, Len(unsigned))
        esigned == Len(exponent) > 0 /\ exponent[1] \in {CharCode("-"), CharCode("+")}
        edigits == IF esigned THEN Tail(exponent) ELSE exponent
        dpos == {i \in 1..Len(mantissa) : mantissa[i] = CharCode(".")}
        di == IF dpos = {} THEN Len(mantissa) + 1 ELSE CHOOSE i \in dpos : TRUE
        whole == SubSeq(mantissa, 1, di - 1)
        frac == SubSeq(mantissa, di + 1, Len(mantissa))
        all_digits(s) == \A i \in 1..Len(s) : is_digit[s[i]]
        well_formed ==
            /\ Cardinality(epos) <= 1 /\ Cardinality(dpos) <= 1
            /\ Len(whole) > 0 /\ all_digits(whole)
            /\ (dpos # {} => Len(frac) > 0) /\ all_digits(frac)
            /\ (epos # {} => Len(edigits) > 0) /\ all_digits(edigits)
        m == digits_value(whole \o frac)
        e == (IF esigned /\ exponent[1] = CharCode("-") THEN 0 - digits_value(edigits)
              ELSE digits_value(edigits)) - Len(frac)
    IN  IF well_formed THEN Some(F64(IF negative THEN 0 - m ELSE m, e)) ELSE None

\* f as i64: the fraction is dropped
as_i64(f) ==
    IF f[2] >= 0 THEN f[1] * Pow10(f[2])
    ELSE IF f[1] >= 0 THEN f[1] \div Pow10(0 - f[2])
    ELSE 0 - ((0 - f[1]) \div Pow10(0 - f[2]))

\* A variant of is_value_type that takes every query for a value, singular
\* or not.
is_value_type_any_query(self, expr) ==
    \/ expr.kind[1] \in {"True", "False", "Null", "String", "Int", "Float"}
    \/ expr.kind[1] \in {"RelativeQuery", "RootQuery"}
    \/ /\ expr.kind[1] = "Function"
       /\ expr.kind[2] \in DOMAIN self.functions
       /\ self.functions[expr.kind[2]].return_type = "Value"

is_value_type(self, expr) ==
    \/ is_literal(expr)
    \/ expr.kind[1] \in {"RelativeQuery", "RootQuery"} /\ is_singular(expr.kind[2])
    \/ /\ expr.kind[1] = "Function"
       /\ IsSome(functions_get(self, expr.kind[2]))
       /\ Unwrap(functions_get(self, expr.kind[2])).return_type = "Value"

is_nodes_type(self, expr) ==
    \/ expr.kind[1] \in {"RelativeQuery", "RootQuery"}
    \/ /\ expr.kind[1] = "Function"
       /\ IsSome(functions_get(self, expr.kind[2]))
       /\ Unwrap(functions_get(self, expr.kind[2])).return_type = "Nodes"

assert_comparable(self, expr, span) ==
    CASE expr.kind[1] \in {"RelativeQuery", "RootQuery"} ->
            IF ~is_singular(expr.kind[2])
            THEN RErr(JSONPathError_typ(
                        Fmt("non-singular query is not comparable", <<>>), span))
            ELSE ROk(<<>>)
      [] expr.kind[1] = "Function" ->
            IF IsSome(functions_get(self, expr.kind[2]))
               /\ Unwrap(functions_get(self, expr.kind[2])).return_type = "Value"
            THEN ROk(<<>>)
            ELSE RErr(JSONPathError_typ(
                        Fmt("result of {}() is not comparable",
                            <<Chars(expr.kind[2])>>), span))
      [] OTHER -> ROk(<<>>)

assert_well_typed(self, func_name, args, token) ==
    LET \* Whether argument idx (from 1) is of the type the signature asks for.
        argument_has_type(arg, typ) ==
            CASE typ = "Value" -> is_value_type(self, arg)
              [] typ = "Logical" ->
                    arg.kind[1] \in {"RelativeQuery", "RootQuery", "Logical", "Comparison"}
              [] typ = "Nodes" -> is_nodes_type(self, arg)
        signature == functions_get(self, func_name)
        param_types == Unwrap(signature).param_types
        ill_typed == {idx \in 1..Len(param_types) :
                        ~argument_has_type(args[idx], param_types[idx])}
        first == CHOOSE idx \in ill_typed : \A other \in ill_typed : idx <= other
    IN  IF ~IsSome(signature)
        THEN RErr(JSONPathError_name(
                    Fmt("unknown function {grave}{}{grave}", <<Chars(func_name)>>),
                    token.span))
        ELSE IF Len(args) # Len(param_types)
        THEN RErr(JSONPathError_typ(
                    Fmt("{}() takes {} argument{} but {} were given",
                        <<Chars(func_name), Chars(ToDigits(Len(param_types))),
                          Chars(IF Len(param_types) > 1 THEN Str(<<"s">>) ELSE <<>>),
                          Chars(ToDigits(Len(args)))>>),
                    token.span))
        ELSE IF ill_typed # {}
        THEN RErr(JSONPathError_typ(
                    Fmt(CASE param_types[first] = "Value" ->
                                "argument {} of {}() must be of a 'Value' type"
                          [] param_types[first] = "Logical" ->
                                "argument {} of {}() must be of a 'Logical' type"
                          [] param_types[first] = "Nodes" ->
                                "argument {} of {}() must be of a 'Nodes' type",
                        <<Chars(ToDigits(first)), Chars(func_name)>>),
                    token.span))
        ELSE ROk(<<>>)

InfixKinds == {"Eq", "Ge", "Gt", "Le", "Lt", "Ne", "And", "Or"}

RECURSIVE parse_segments_loop(_, _, _)
RECURSIVE parse_selectors(_, _)
RECURSIVE parse_bracketed(_, _)
RECURSIVE parse_bracketed_loop(_, _, _, _)
RECURSIVE parse_filter(_, _)
RECURSIVE parse_not_expression(_, _)
RECURSIVE parse_infix_expression(_, _, _)
RECURSIVE parse_grouped_expression(_, _)
RECURSIVE parse_grouped_loop(_, _)
RECURSIVE parse_basic_expression(_, _)
RECURSIVE parse_function_call(_, _)
RECURSIVE parse_arguments_loop(_, _, _)
RECURSIVE parse_argument_infix_loop(_, _)
RECURSIVE parse_filter_expression(_, _, _)
RECURSIVE parse_filter_expression_loop(_, _, _)

\* The loop of parse_segments.
parse_segments_loop(self, it, segments) ==
    LET kind == TokenStream_peek(it).kind
        \* segments.push(Segment::Recursive {..}) after a double dot,
        \* segments.push(Segment::Child {..}) otherwise
        push(selectors) ==
            IF selectors.tag # "Ok" THEN selectors
            ELSE parse_segments_loop(self, selectors.it,
                    Append(segments,
                           IF kind[1] = "DoubleDot" THEN Recursive(selectors.val)
                           ELSE Child(selectors.val)))
    IN  IF kind[1] \in {"DoubleDot", "LBracket", "Name", "Wild"}
        THEN push(parse_selectors(self,
                    IF kind[1] = "DoubleDot" THEN TokenStream_next(it) ELSE it))
        ELSE POk(segments, it)

parse_segments(self, it) == parse_segments_loop(self, it, <<>>)

parse_selectors(self, it) ==
    LET token == TokenStream_peek(it)
        named(name) ==
            IF name.tag # "Ok" THEN name
            ELSE POk(<<Name(name.val)>>, TokenStream_next(it))
    IN  CASE token.kind[1] = "Name" ->
                named(unescape_string(token.kind[2], token.span))
          [] token.kind[1] = "Wild" -> POk(<<Wild>>, TokenStream_next(it))
          [] token.kind[1] = "LBracket" -> parse_bracketed(self, it)
          [] OTHER -> POk(<<>>, it)

parse_slice_or_index(self, it0) ==
    LET token == TokenStream_peek(it0)
        it == TokenStream_next(it0)
        \* 1: or :
        has_start == token.kind[1] = "Index"
        it1 == IF has_start THEN TokenStream_next(it) ELSE it
        \* 1 or 1: or : or ?
        second == TokenStream_peek(it1)
        takes_second == second.kind[1] \in {"Index", "Colon"}
        has_stop == takes_second /\ second.kind[1] = "Index"
        it2 == IF takes_second THEN TokenStream_next(it1) ELSE it1
        it3 == IF has_stop /\ TokenStream_peek(it2).kind[1] = "Colon"
               THEN TokenStream_next(it2) ELSE it2
        \* 1 or ?
        third == TokenStream_peek(it3)
        has_step == third.kind[1] = "Index"
        it4 == IF has_step THEN TokenStream_next(it3) ELSE it3
        \* the three parse_i_json_int calls, each made only where its
        \* token is an Index, and the first Err returned
        sliced(start, stop, step) ==
            IF has_start /\ start.tag # "Ok" THEN start
            ELSE IF has_stop /\ stop.tag # "Ok" THEN stop
            ELSE IF has_step /\ step.tag # "Ok" THEN step
            ELSE POk(Slice(IF has_start THEN start.val ELSE None,
                           IF has_stop THEN stop.val ELSE None,
                           IF has_step THEN step.val ELSE None),
                     it4)
        \* Selector::Index { index }: <<"Index", n>>, or <<"Index", text,
        \* "wide">> for an index beyond the integers of the model
        indexed(array_index) ==
            IF array_index.tag # "Ok" THEN array_index
            ELSE POk(<<"Index">> \o array_index.val, it)
    IN  IF self.debug_assertions /\ token.kind[1] \notin {"Colon", "Index"}
        THEN RPanic("expected an index or slice")
        ELSE IF token.kind[1] = "Colon" \/ TokenStream_peek(it).kind[1] = "Colon"
        THEN sliced(parse_i_json_int(self, token.kind[2], token.span),
                    parse_i_json_int(self, second.kind[2], second.span),
                    parse_i_json_int(self, third.kind[2], third.span))
        ELSE IF token.kind[1] = "Index"
        THEN indexed(parse_i_json_int(self, token.kind[2], token.span))
        ELSE RErr(JSONPathError_syntax(
                    Fmt("expected an index, found {}", <<TokenType_fmt(token.kind)>>),
                    token.span))

\* After a selector of a bracketed selection: the debug_assert!, then the
\* comma or the closing bracket.
parse_bracketed_separator(self, it, selectors, token) ==
    LET next_token == TokenStream_peek(it)
    IN  IF self.debug_assertions /\ next_token.kind[1] \notin {"Comma", "RBracket"}
        THEN RPanic("expected a comma or the end of a bracketed selection")
        ELSE CASE next_token.kind[1] = "RBracket" ->
                    parse_bracketed_loop(self, it, selectors, token)
               [] next_token.kind[1] = "Comma" ->
                    parse_bracketed_loop(self, TokenStream_next(it), selectors, token)
               [] OTHER ->
                    RErr(JSONPathError("SyntaxError",
                            Fmt("expected a comma or closing bracket, found {}",
                                <<TokenType_fmt(next_token.kind)>>),
                            next_token.span))

\* The loop of parse_bracketed; token is the opening bracket.
parse_bracketed_loop(self, it, selectors, token) ==
    LET tok == TokenStream_peek(it)
        \* selectors.push(selector) of what a parse_ call returned
        push(selector) ==
            IF selector.tag # "Ok" THEN selector
            ELSE parse_bracketed_separator(self, selector.it,
                    Append(selectors, selector.val), token)
        \* selectors.push(Selector::Name {..}) of an unescaped string
        push_name(name) ==
            IF name.tag # "Ok" THEN name
            ELSE parse_bracketed_separator(self, TokenStream_next(it),
                    Append(selectors, Name(name.val)), token)
    IN  CASE tok.kind[1] = "RBracket" ->
                IF Len(selectors) = 0
                THEN RErr(JSONPathError("SyntaxError",
                            Fmt("empty bracketed selection", <<>>), token.span))
                ELSE POk(selectors, TokenStream_next(it))
          [] tok.kind[1] \in {"Index", "Colon"} ->
                push(parse_slice_or_index(self, it))
          [] tok.kind[1] = "DoubleQuoteString" ->
                push_name(unescape_string(tok.kind[2], tok.span))
          [] tok.kind[1] = "SingleQuoteString" ->
                push_name(unescape_string(replace_escaped_quote(tok.kind[2]),
                                          tok.span))
          [] tok.kind[1] = "Wild" ->
                parse_bracketed_separator(self, TokenStream_next(it),
                        Append(selectors, Wild), token)
          [] tok.kind[1] = "Filter" ->
                push(parse_filter(self, it))
          [] tok.kind[1] = "Eoq" ->
                RErr(JSONPathError_syntax(Fmt("unexpected end of query", <<>>),
                                          token.span))
          [] OTHER ->
                RErr(JSONPathError_syntax(
                        Fmt("unexpected selector token {}", <<TokenType_fmt(tok.kind)>>),
                        tok.span))

parse_bracketed(self, it) ==
    IF self.debug_assertions /\ TokenStream_peek(it).kind[1] # "LBracket"
    THEN RPanic("expected the start of a bracketed selection")
    ELSE parse_bracketed_loop(self, TokenStream_next(it), <<>>, TokenStream_peek(it))

parse_filter(self, it) ==
    LET token == TokenStream_peek(it)
        checked(expr, signature, rest) ==
            IF expr.kind[1] = "Function" /\ IsSome(signature)
               /\ Unwrap(signature).return_type = "Value"
            THEN RErr(JSONPathError_typ(
                        Fmt("result of {}() must be compared", <<Chars(expr.kind[2])>>),
                        expr.span))
            ELSE IF is_literal(expr)
            THEN RErr(JSONPathError_typ(
                        Fmt("filter expression literals must be compared", <<>>),
                        expr.span))
            ELSE POk(Filter(expr.kind), rest)
        then(r) ==
            IF r.tag # "Ok" THEN r
            ELSE checked(r.val, functions_get(self, r.val.kind[2]), r.it)
    IN  IF self.debug_assertions /\ token.kind[1] # "Filter"
        THEN RPanic("expected a filter")
        ELSE then(parse_filter_expression(self, TokenStream_next(it),
                                          PRECEDENCE_LOWEST))

parse_not_expression(self, it) ==
    LET token == TokenStream_peek(it)
        then(r) ==
            IF r.tag # "Ok" THEN r
            ELSE POk(FilterExpression(token.span, FxNot(r.val.kind)), r.it)
    IN  then(parse_filter_expression(self, TokenStream_next(it),
                                     PRECEDENCE_LOGICAL_NOT))

parse_infix_expression(self, it, left) ==
    LET op_token == TokenStream_peek(it)
        compared(right, left_comparable, right_comparable, rest) ==
            IF left_comparable.tag # "Ok" THEN left_comparable
            ELSE IF right_comparable.tag # "Ok" THEN right_comparable
            ELSE POk(FilterExpression(left.span,
                        FxComparison(left.kind, op_token.kind[1], right.kind)),
                     rest)
        infix(right, rest) ==
            CASE op_token.kind[1] \in {"And", "Or"} ->
                    IF is_literal(left) \/ is_literal(right)
                    THEN RErr(JSONPathError_syntax(
                                Fmt("filter expression literals must be compared", <<>>),
                                left.span))
                    ELSE POk(FilterExpression(left.span,
                                FxLogical(left.kind, op_token.kind[1],
                                          right.kind)),
                             rest)
              [] op_token.kind[1] \in {"Eq", "Ge", "Gt", "Le", "Lt", "Ne"} ->
                    compared(right,
                             assert_comparable(self, left, left.span),
                             assert_comparable(self, right, right.span),
                             rest)
              [] OTHER ->
                    RErr(JSONPathError_syntax(
                            Fmt("unexpected infix operator {}",
                                <<TokenType_fmt(op_token.kind)>>),
                            op_token.span))
        then(r) == IF r.tag # "Ok" THEN r ELSE infix(r.val, r.it)
    IN  then(parse_filter_expression(self, TokenStream_next(it),
                                     precedence(op_token.kind)))

\* The loop of parse_grouped_expression, from what the parse of the
\* expression so far returned: its Err, or the loop on its Ok.
parse_grouped_loop(self, r) ==
    LET token == TokenStream_peek(r.it)
    IN  IF r.tag # "Ok" THEN r
        ELSE CASE token.kind[1] = "RParen" -> POk(r.val, TokenStream_next(r.it))
               [] token.kind[1] \in InfixKinds ->
                    parse_grouped_loop(self, parse_infix_expression(self, r.it, r.val))
               [] token.kind[1] \in {"Eoq", "RBracket"} ->
                    RErr(JSONPathError_syntax(Fmt("unbalanced parentheses", <<>>),
                                              token.span))
               [] OTHER ->
                    RErr(JSONPathError_syntax(
                            Fmt("expected an expression, found {}",
                                <<TokenType_fmt(token.kind)>>),
                            token.span))

parse_grouped_expression(self, it) ==
    parse_grouped_loop(self,
        parse_filter_expression(self, TokenStream_next(it), PRECEDENCE_LOWEST))

parse_basic_expression(self, it) ==
    LET token == TokenStream_peek(it)
        kind == token.kind
        rest == TokenStream_next(it)
        string(value) ==
            IF value.tag # "Ok" THEN value
            ELSE POk(FilterExpression(token.span, FxString(value.val)), rest)
        float(f) ==
            IF ~IsSome(f)
            THEN RErr(JSONPathError_syntax(Fmt("invalid float literal", <<>>),
                                           token.span))
            ELSE POk(FilterExpression(token.span, FxFloat(Unwrap(f))), rest)
        int(f) ==
            IF ~IsSome(f)
            THEN RErr(JSONPathError_syntax(Fmt("invalid integer literal", <<>>),
                                           token.span))
            ELSE POk(FilterExpression(token.span, FxInt(as_i64(Unwrap(f)))), rest)
        \* the arms of Root and of Current, alike but for the variant
        query(segments) ==
            IF segments.tag # "Ok" THEN segments
            ELSE POk(FilterExpression(token.span,
                        IF kind[1] = "Root" THEN FxRootQuery(segments.val)
                        ELSE FxRelativeQuery(segments.val)),
                     segments.it)
    IN  CASE kind[1] = "DoubleQuoteString" ->
                string(unescape_string(kind[2], token.span))
          [] kind[1] = "False" -> POk(FilterExpression(token.span, FxFalse), rest)
          [] kind[1] = "Float" -> float(parse_f64(kind[2]))
          [] kind[1] = "Function" -> parse_function_call(self, it)
          [] kind[1] = "Int" -> int(parse_f64(kind[2]))
          [] kind[1] = "Null" -> POk(FilterExpression(token.span, FxNull), rest)
          [] kind[1] \in {"Root", "Current"} -> query(parse_segments(self, rest))
          [] kind[1] = "SingleQuoteString" ->
                string(unescape_string(replace_escaped_quote(kind[2]), token.span))
          [] kind[1] = "True" -> POk(FilterExpression(token.span, FxTrue), rest)
          [] kind[1] = "LParen" -> parse_grouped_expression(self, it)
          [] kind[1] = "Not" -> parse_not_expression(self, it)
          [] OTHER ->
                RErr(JSONPathError_syntax(
                        Fmt("expected a filter expression, found {}",
                            <<TokenType_fmt(kind)>>),
                        token.span))

\* let mut expr = self.parse_basic_expression(it)?;
\* while matches!(it.peek().kind, Eq | .. | Or) { expr = parse_infix.. }
\* from what the parse of the argument so far returned.
parse_argument_infix_loop(self, r) ==
    IF r.tag # "Ok" THEN r
    ELSE IF TokenStream_peek(r.it).kind[1] \in InfixKinds
    THEN parse_argument_infix_loop(self, parse_infix_expression(self, r.it, r.val))
    ELSE r

\* The while loop of parse_function_call, to the stream at the closing
\* paren and the arguments.
parse_arguments_loop(self, it, arguments) ==
    LET push(arg) ==
            IF arg.tag # "Ok" THEN arg
            ELSE CASE TokenStream_peek(arg.it).kind[1] = "RParen" ->
                        POk(Append(arguments, arg.val), arg.it)
                   [] TokenStream_peek(arg.it).kind[1] = "Comma" ->
                        parse_arguments_loop(self, TokenStream_next(arg.it),
                                             Append(arguments, arg.val))
                   [] OTHER ->
                        parse_arguments_loop(self, arg.it, Append(arguments, arg.val))
    IN  IF TokenStream_peek(it).kind[1] = "RParen" THEN POk(arguments, it)
        ELSE push(parse_argument_infix_loop(self, parse_basic_expression(self, it)))

parse_function_call(self, it) ==
    LET token == TokenStream_peek(it)
        function_name == token.kind[2]
        call(arguments, well_typed, rest) ==
            IF self.debug_assertions /\ TokenStream_peek(rest).kind[1] # "RParen"
            THEN RPanic("expected closing paren")
            ELSE IF token.kind[1] = "Function"
            THEN IF well_typed.tag # "Ok" THEN well_typed
                 ELSE POk(FilterExpression(token.span,
                            FxFunction(function_name,
                                       [i \in 1..Len(arguments) |-> arguments[i].kind])),
                          TokenStream_next(rest))
            ELSE RErr(JSONPathError_syntax(
                        Fmt("unexpected function argument token {}",
                            <<TokenType_fmt(token.kind)>>),
                        token.span))
        then(r) ==
            IF r.tag # "Ok" THEN r
            ELSE call(r.val, assert_well_typed(self, function_name, r.val, token), r.it)
    IN  then(parse_arguments_loop(self, TokenStream_next(it), <<>>))

\* The loop of parse_filter_expression, from what the parse of the left
\* operand so far returned: its Err, or the loop on its Ok.
parse_filter_expression_loop(self, r, prec) ==
    LET peek_kind == TokenStream_peek(r.it).kind
    IN  IF r.tag # "Ok" THEN r
        ELSE IF \/ peek_kind[1] \in {"Eoq", "RBracket"}
                \/ precedence(peek_kind) < prec
                \/ peek_kind[1] \notin InfixKinds
        THEN r
        ELSE parse_filter_expression_loop(self,
                parse_infix_expression(self, r.it, r.val), prec)

parse_filter_expression(self, it, prec) ==
    parse_filter_expression_loop(self, parse_basic_expression(self, it), prec)

\* Parser::parse_tokens: Ok(segments), an Err or the panic
parse_tokens(self, tokens) ==
    LET it == TokenStream(tokens)
        token == TokenStream_peek(it)
        end(segments, last) ==
            IF last.kind[1] = "Eoq" THEN ROk(segments)
            ELSE RErr(JSONPathError_syntax(
                        Fmt("expected end of query, found {}",
                            <<TokenType_fmt(last.kind)>>),
                        last.span))
        then(segments) ==
            IF segments.tag # "Ok" THEN segments
            ELSE end(segments.val, TokenStream_peek(segments.it))
    IN  IF token.kind[1] = "Root"
        THEN then(parse_segments(self, TokenStream_next(it)))
        ELSE RErr(JSONPathError_syntax(
                    Fmt("expected '$', found {}", <<TokenType_fmt(token.kind)>>),
                    token.span))

\* Parser::parse: Ok(Query), an Err or the panic.  A Query is its segments.
parse(self, query) ==
    LET tokens == lex(query, self.debug_assertions)
    IN  IF tokens.tag # "Ok" THEN tokens ELSE parse_tokens(self, tokens.val)

\* ----------------------------------------------------------------- Display

\* .collect::<Vec<String>>().join(sep)
RECURSIVE join(_, _)
join(strings, sep) ==
    IF Len(strings) = 0 THEN <<>>
    ELSE IF Len(strings) = 1 THEN strings[1]
    ELSE strings[1] \o sep \o join(Tail(strings), sep)

\* impl Display for f64: the decimal, with no exponent and no trailing
\* zeros
f64_fmt(f) ==
    LET m == IF f[1] < 0 THEN 0 - f[1] ELSE f[1]
        sign == IF f[1] < 0 THEN Str(<<"-">>) ELSE <<>>
        digits == ToDigits(m)
        places == 0 - f[2]
        padded == [i \in 1..Max(0, places + 1 - Len(digits)) |-> CharCode("0")] \o digits
    IN  IF f[2] >= 0 THEN sign \o ToDigits(m * Pow10(f[2]))
        ELSE sign \o SubSeq(padded, 1, Len(padded) - places) \o Str(<<".">>)
             \o SubSeq(padded, Len(padded) - places + 1, Len(padded))

LogicalOperator_fmt(operator) ==
    CASE operator = "And" -> Str(<<"&", "&">>)
      [] operator = "Or" -> Str(<<"|", "|">>)

ComparisonOperator_fmt(operator) ==
    CASE operator = "Eq" -> Str(<<"=", "=">>)
      [] operator = "Ne" -> Str(<<"!", "=">>)
      [] operator = "Ge" -> Str(<<">", "=">>)
      [] operator = "Gt" -> Str(<<">">>)
      [] operator = "Le" -> Str(<<"<", "=">>)
      [] operator = "Lt" -> Str(<<"<">>)

RECURSIVE Segment_fmt(_)
RECURSIVE Selector_fmt(_)
RECURSIVE FilterExpression_fmt(_)

\* segments.iter().map(|s| s.to_string()).collect::<Vec<String>>().join("")
Segments_fmt(segments) ==
    join([i \in 1..Len(segments) |-> Segment_fmt(segments[i])], <<>>)

\* impl Display for Query
Query_fmt(segments) == Str(<<"$">>) \o Segments_fmt(segments)

\* impl Display for Segment
Segment_fmt(segment) ==
    LET selectors == join([i \in 1..Len(segment[2]) |-> Selector_fmt(segment[2][i])],
                          Str(<<",", " ">>))
    IN  CASE segment[1] = "Child" -> Str(<<"[">>) \o selectors \o Str(<<"]">>)
          [] segment[1] = "Recursive" -> Str(<<".", ".", "[">>) \o selectors \o Str(<<"]">>)

\* impl Display for Selector
Selector_fmt(selector) ==
    CASE selector[1] = "Name" -> Str(<<"'">>) \o selector[2] \o Str(<<"'">>)
      [] selector[1] = "Index" -> i64_fmt(Tail(selector))
      [] selector[1] = "Slice" ->
            (IF IsSome(selector[2]) THEN i64_fmt(selector[2]) ELSE <<>>)
            \o Str(<<":">>)
            \o (IF IsSome(selector[3]) THEN i64_fmt(selector[3]) ELSE <<>>)
            \o Str(<<":">>)
            \o (IF IsSome(selector[4]) THEN i64_fmt(selector[4]) ELSE Str(<<"1">>))
      [] selector[1] = "Wild" -> Str(<<"*">>)
      [] selector[1] = "Filter" -> Str(<<"?">>) \o FilterExpression_fmt(selector[2])

\* impl Display for FilterExpression
FilterExpression_fmt(kind) ==
    CASE kind[1] = "True" -> Str(<<"t", "r", "u", "e">>)
      [] kind[1] = "False" -> Str(<<"f", "a", "l", "s", "e">>)
      [] kind[1] = "Null" -> Str(<<"n", "u", "l", "l">>)
      [] kind[1] = "String" -> Str(<<"\"">>) \o kind[2] \o Str(<<"\"">>)
      [] kind[1] = "Int" -> ToSigned(kind[2])
      [] kind[1] = "Float" -> f64_fmt(kind[2])
      [] kind[1] = "Not" -> Str(<<"!">>) \o FilterExpression_fmt(kind[2])
      [] kind[1] = "Logical" ->
            Str(<<"(">>) \o FilterExpression_fmt(kind[2]) \o Str(<<" ">>)
            \o LogicalOperator_fmt(kind[3]) \o Str(<<" ">>)
            \o FilterExpression_fmt(kind[4]) \o Str(<<")">>)
      [] kind[1] = "Comparison" ->
            FilterExpression_fmt(kind[2]) \o Str(<<" ">>)
            \o ComparisonOperator_fmt(kind[3]) \o Str(<<" ">>)
            \o FilterExpression_fmt(kind[4])
      [] kind[1] = "RelativeQuery" -> Str(<<"@">>) \o Segments_fmt(kind[2])
      [] kind[1] = "RootQuery" -> Str(<<"$">>) \o Segments_fmt(kind[2])
      [] kind[1] = "Function" ->
            kind[2] \o Str(<<"(">>)
            \o join([i \in 1..Len(kind[3]) |-> FilterExpression_fmt(kind[3][i])], Str(<<",", " ">>))
            \o Str(<<")">>)

\* ------------------------------------------------ the compilation harness

\* Most arguments of a function call the harness writes.
MaxArgs == 2
\* Most calls of add_function before the Parser is used.
MaxCustom == 1

foo_name == Str(<<"f", "o", "o">>)
bl_name == Str(<<"b", "l">>)

\* The function extensions the harness registers, as the arguments of
\* add_function: a Nodes function of Nodes and a Logical function of a
\* Logical.
CustomFunctions ==
    {<<foo_name, <<"Nodes">>, "Nodes">>, <<bl_name, <<"Logical">>, "Logical">>}

\* The filter expressions the harness writes.  The operands are a singular
\* and a non-singular query, literals, and calls that return a Value, a
\* Logical and Nodes; a term is an operand as it is, negated or in
\* parentheses; a chain has two operators, and a grouped chain parentheses
\* around one of them.
FilterBodies ==
    LET Operands == {Str(<<"@", ".", "a">>), Str(<<"@", ".", "*">>), Str(<<"1">>), Str(<<"t", "r", "u", "e">>), Str(<<"'", "a", "'">>),
                     Str(<<"c", "o", "u", "n", "t", "(", "@", ".", "*", ")">>), Str(<<"m", "a", "t", "c", "h", "(", "@", ".", "a", ",", " ", "'", "a", "'", ")">>), Str(<<"f", "o", "o", "(", "@", ".", "*", ")">>)}
        ChainOperands == {Str(<<"@", ".", "a">>), Str(<<"1">>), Str(<<"t", "r", "u", "e">>), Str(<<"c", "o", "u", "n", "t", "(", "@", ".", "*", ")">>)}
        BinaryOperators == {Str(<<" ", "=", "=", " ">>), Str(<<" ", "<", " ">>), Str(<<" ", "&", "&", " ">>), Str(<<" ", "|", "|", " ">>)}
        Terms(x) == {x, Str(<<"!">>) \o x, Str(<<"(">>) \o x \o Str(<<")">>)}
        terms == UNION {Terms(x) : x \in Operands}
        binary == {t \o op \o u : t \in terms, op \in {Str(<<" ", "=", "=", " ">>), Str(<<" ", "&", "&", " ">>)}, u \in terms}
        plain == {x \o op \o y : x \in Operands, op \in BinaryOperators, y \in Operands}
        wrapped == UNION {{Str(<<"!", "(">>) \o b \o Str(<<")">>), Str(<<"(">>) \o b \o Str(<<")">>)} : b \in plain}
        chains == {x \o op1 \o y \o op2 \o z :
                     x \in ChainOperands, op1 \in BinaryOperators,
                     y \in ChainOperands, op2 \in BinaryOperators,
                     z \in ChainOperands}
        GroupOperands == {Str(<<"@", ".", "a">>), Str(<<"1">>)}
        grouped == UNION {{Str(<<"(">>) \o x \o op1 \o y \o Str(<<")">>) \o op2 \o z,
                           x \o op1 \o Str(<<"(">>) \o y \o op2 \o z \o Str(<<")">>)} :
                            x \in GroupOperands, op1 \in BinaryOperators,
                            y \in GroupOperands, op2 \in BinaryOperators,
                            z \in GroupOperands}
    IN  terms \cup binary \cup plain \cup wrapped \cup chains \cup grouped

\* The arguments and the function names of the calls the harness writes:
\* the standard functions, the registered ones and an unknown one.
Arguments == {Str(<<"@", ".", "a">>), Str(<<"@", ".", "*">>), Str(<<"1">>), Str(<<"1", " ", "=", "=", " ", "1">>), Str(<<"c", "o", "u", "n", "t", "(", "@", ".", "*", ")">>), Str(<<"f", "o", "o", "(", "@", ".", "*", ")">>)}

FunctionNames ==
    {count_name, length_name, match_name, value_name, foo_name, bl_name, Str(<<"n", "o", "s", "u", "c", "h">>)}

CallText(name, args) == name \o Str(<<"(">>) \o join(args, Str(<<",", " ">>)) \o Str(<<")">>)

FilterQuery(body) == Str(<<"$", "[", "?">>) \o body \o Str(<<"]">>)

\* Queries without a filter, and filters on literals, well formed and not.
SelectorQueries ==
    {<<>>, Str(<<"$">>), Str(<<"$", " ">>), Str(<<"a">>), Str(<<"$", "a">>), Str(<<"$", ".">>), Str(<<"$", ".", " ", "a">>), Str(<<"$", ".", "a", " ">>), Str(<<"$", ".", ".">>),
     Str(<<"$", ".", "a">>), Str(<<"$", ".", "*">>), Str(<<"$", ".", ".", "a">>), Str(<<"$", ".", ".", "*">>), Str(<<"$", ".", "a", ".", "b">>), Str(<<"$", ".", "a", "[", "0", "]">>), Str(<<"$", ".", ".", "[", "0", "]">>),
     Str(<<"$", ".">>) \o <<233>>, Str(<<"$", "[", "'">>) \o <<233, 8364>> \o Str(<<"'", "]">>),
     Str(<<"$", "[", "'", "a", "'", "]">>), Str(<<"$", "[", "\"", "a", "\"", "]">>), Str(<<"$", "[", "\"", "a", "'", "b", "\"", "]">>), Str(<<"$", "[", "'", "a", "\"", "b", "'", "]">>), Str(<<"$", "[", "'", "a", "\\", "'", "b", "'", "]">>),
     Str(<<"$", "[", "'", "a", "\\", "n", "b", "'", "]">>), Str(<<"$", "[", "'", "a", "\\", "b", "b", "'", "]">>), Str(<<"$", "[", "\"", "\\", "u", "0", "0", "4", "1", "\"", "]">>), Str(<<"$", "[", "'", "\\", "u", "d", "8", "3", "d", "\\", "u", "d", "e", "0", "0", "'", "]">>),
     Str(<<"$", "[", "'", "\\", "u", "d", "8", "3", "d", "'", "]">>), Str(<<"$", "[", "'", "\\", "u", "0", "0", "'", "]">>), Str(<<"$", "[", "'", "\\", "x", "'", "]">>), Str(<<"$", "[", "'", "a">>) \o <<10>> \o Str(<<"'", "]">>),
     Str(<<"$", "[", "0", "]">>), Str(<<"$", "[", "-", "1", "]">>), Str(<<"$", "[", "0", "1", "]">>), Str(<<"$", "[", "-", "0", "]">>), Str(<<"$", "[", "-", "]">>),
     Str(<<"$", "[", "9", "0", "0", "7", "1", "9", "9", "2", "5", "4", "7", "4", "0", "9", "9", "2", "]">>), Str(<<"$", "[", "-", "9", "2", "2", "3", "3", "7", "2", "0", "3", "6", "8", "5", "4", "7", "7", "5", "8", "0", "9", "]">>),
     Str(<<"$", "[", "1", ":", "2", "]">>), Str(<<"$", "[", "1", ":", "2", ":", "3", "]">>), Str(<<"$", "[", ":", "]">>), Str(<<"$", "[", ":", ":", "]">>), Str(<<"$", "[", ":", ":", "2", "]">>), Str(<<"$", "[", "1", ":", "]">>), Str(<<"$", "[", ":", "2", "]">>),
     Str(<<"$", "[", "-", "1", ":", ":", "-", "1", "]">>), Str(<<"$", "[", "1", ":", "2", ":", "3", ":", "4", "]">>), Str(<<"$", "[", "*", "]">>), Str(<<"$", "[", "0", ",", " ", "1", "]">>), Str(<<"$", "[", "'", "a", "'", ",", " ", "0", ",", " ", "*", "]">>), Str(<<"$", "[", "0", ",", "]">>),
     Str(<<"$", "[", "1", " ", "2", "]">>), Str(<<"$", "[", "1", ":", "2", " ", "3", "]">>), Str(<<"$", "[", "]">>), Str(<<"$", "[">>), Str(<<"$", "[", "'", "a">>), Str(<<"$", "[", "'">>), Str(<<"$", "[", "\"">>), Str(<<"$", "[", "'", "a", "'">>),
     Str(<<"$", "[", "?", "@", ".", "a", "]">>), Str(<<"$", "[", "?", "@", ".", "a", ",", " ", "0", "]">>), Str(<<"$", "[", "?", "@", ".", "a", ",", " ", "?", "@", ".", "b", "]">>), Str(<<"$", "[", "?", "@", "[", "?", "@", ".", "a", "]", "]">>), Str(<<"$", "[", "?", "$", ".", "a", " ", "=", "=", " ", "@", ".", "a", "]">>),
     Str(<<"$", "[", "?", "@", ".", "a", " ", "=", "=", " ", "1", ".", "5", "]">>), Str(<<"$", "[", "?", "@", ".", "a", " ", "=", "=", " ", "1", ".", "0", "]">>), Str(<<"$", "[", "?", "@", ".", "a", " ", "=", "=", " ", "-", "1", "]">>), Str(<<"$", "[", "?", "@", ".", "a", " ", "=", "=", " ", "1", "e", "2", "]">>),
     Str(<<"$", "[", "?", "@", ".", "a", " ", "=", "=", " ", "1", "e", "-", "1", "]">>), Str(<<"$", "[", "?", "@", ".", "a", " ", "=", "=", " ", "1", ".", "]">>), Str(<<"$", "[", "?", "@", ".", "a", " ", "=", "=", " ", "1", ".", "5", "e", "]">>), Str(<<"$", "[", "?", "@", ".", "a", " ", "=", "=", " ", "-", "a", "]">>),
     Str(<<"$", "[", "?", "1", ".", " ", "=", "=", " ", "@", ".", "a", "]">>), Str(<<"$", "[", "?", "@", ".", "a", " ", "=", "=", " ", "\"", "a", "\"", "]">>), Str(<<"$", "[", "?", "@", ".", "a", " ", "=", "=", " ", "'", "a", "\"", "b", "'", "]">>),
     Str(<<"$", "[", "?", "@", ".", "a", " ", "=", "=", " ", "\"", "a", "'", "b", "\"", "]">>), Str(<<"$", "[", "?", "@", ".", "a", " ", "=", "=", " ", "n", "u", "l", "l", "]">>), Str(<<"$", "[", "?", "@", ".", "a", " ", "!", "=", " ", "f", "a", "l", "s", "e", "]">>),
     Str(<<"$", "[", "?", "@", ".", "a", " ", ">", "=", " ", "1", "]">>), Str(<<"$", "[", "?", "@", ".", "a", " ", ">", " ", "1", "]">>), Str(<<"$", "[", "?", "@", ".", "a", " ", "<", "=", " ", "1", "]">>), Str(<<"$", "[", "?", "@", ".", "a", " ", "=", " ", "1", "]">>),
     Str(<<"$", "[", "?", "@", ".", "a", " ", "&", " ", "@", ".", "b", "]">>), Str(<<"$", "[", "?", "@", ".", "a", " ", "|", " ", "@", ".", "b", "]">>), Str(<<"$", "[", "?", "@", ".", "a", " ", "=", "=", " ", "t", "r", "u", "]">>), Str(<<"$", "[", "?", "#", "]">>),
     Str(<<"$", "[", "?">>), Str(<<"$", "[", "?", "@", ".", "a">>), Str(<<"$", "[", "?", "(", "@", ".", "a", "]">>), Str(<<"$", "[", "?", "(", "(", "@", ".", "a", ")", "]">>), Str(<<"$", "[", "?", "(", ")", "]">>), Str(<<"$", "[", "?", "@", ".", "a", ")", "]">>),
     Str(<<"$", "[", "?", "c", "o", "u", "n", "t", "(", "@", ".", "*", "]">>), Str(<<"$", "[", "?", "c", "o", "u", "n", "t", "(", "@", ".", "*", ")", " ", "=", "=", " ", "1">>), Str(<<"$", "[", "?", "'">>), Str(<<"$", "[", "?", "@", ".", "a", " ", "=", "=", " ", "'">>),
     Str(<<"$", "[", "?", "m", "a", "t", "c", "h", "(", "@", ".", "a", " ", "'", "a", "'", ")", "]">>), Str(<<"$", "[", "?", "c", "o", "u", "n", "t", "(", "(", "@", ".", "*", ")", ")", " ", "=", "=", " ", "1", "]">>), Str(<<"$", "[", "?", "@", "[", "'", "a", "'", ",", " ", "'", "b", "'", "]", "]">>),
     Str(<<"$", "[", "?", "@", "[", "0", "]", " ", "=", "=", " ", "@", "[", "'", "a", "'", "]", "]">>), Str(<<"$", "[", "?", "@", ".", ".", "a", "]">>), Str(<<"$", "[", "?", "l", "e", "n", "g", "t", "h", "(", "@", ".", "a", ")", " ", "=", "=", " ", "l", "e", "n", "g", "t", "h", "(", "@", ".", "b", ")", "]">>)}

\* Queries on the form and the range of an index and of the parts of a
\* slice.
IndexQueries ==
    {Str(<<"$", "[", "1", "0", "]">>), Str(<<"$", "[", "0", "0", "]">>), Str(<<"$", "[", "-", "0", "1", "]">>), Str(<<"$", "[", "-", "1", "0", "]">>), Str(<<"$", "[", "0", ",", " ", "0", "1", "]">>), Str(<<"$", "[", "-", "9", "0", "0", "7", "1", "9", "9", "2", "5", "4", "7", "4", "0", "9", "9", "2", "]">>),
     Str(<<"$", "[", "0", "1", ":", "2", "]">>), Str(<<"$", "[", "1", ":", "0", "2", "]">>), Str(<<"$", "[", "1", ":", "2", ":", "0", "3", "]">>), Str(<<"$", "[", "-", "0", "1", ":", "]">>), Str(<<"$", "[", "1", "0", ":", "2", "0", ":", "3", "0", "]">>),
     Str(<<"$", "[", "9", "0", "0", "7", "1", "9", "9", "2", "5", "4", "7", "4", "0", "9", "9", "2", ":", "]">>), Str(<<"$", "[", ":", "-", "9", "0", "0", "7", "1", "9", "9", "2", "5", "4", "7", "4", "0", "9", "9", "2", "]">>), Str(<<"$", "[", ":", ":", "9", "0", "0", "7", "1", "9", "9", "2", "5", "4", "7", "4", "0", "9", "9", "2", "]">>),
     Str(<<"$", "[", "9", "0", "0", "7", "1", "9", "9", "2", "5", "4", "7", "4", "0", "9", "9", "1", "]">>), Str(<<"$", "[", "-", "9", "0", "0", "7", "1", "9", "9", "2", "5", "4", "7", "4", "0", "9", "9", "1", "]">>), Str(<<"$", "[", "1", "2", "3", "4", "5", "6", "7", "8", "9", "0", "]">>),
     Str(<<"$", "[", "-", "9", "0", "0", "7", "1", "9", "9", "2", "5", "4", "7", "4", "0", "9", "9", "1", ":", "9", "0", "0", "7", "1", "9", "9", "2", "5", "4", "7", "4", "0", "9", "9", "1", ":", "9", "0", "0", "7", "1", "9", "9", "2", "5", "4", "7", "4", "0", "9", "9", "1", "]">>), Str(<<"$", "[", "?", "@", "[", "-", "9", "0", "0", "7", "1", "9", "9", "2", "5", "4", "7", "4", "0", "9", "9", "1", "]", "]">>),
     Str(<<"$", "[", "?", "@", "[", "0", "1", "]", "]">>), Str(<<"$", "[", "?", "@", "[", "9", "0", "0", "7", "1", "9", "9", "2", "5", "4", "7", "4", "0", "9", "9", "2", "]", "]">>), Str(<<"$", "[", "?", "@", "[", "1", ":", "0", "2", "]", "]">>), Str(<<"$", "[", "?", "@", "[", "1", "0", "]", "]">>)}

\* String literals with escapes, as a name selector and as a comparand, in
\* both kinds of quotes.
EscapeBodies ==
    {Str(<<"\\", "b">>), Str(<<"\\", "f">>), Str(<<"\\", "n">>), Str(<<"\\", "r">>), Str(<<"\\", "t">>), Str(<<"\\", "/">>), Str(<<"\\", "\\">>), Str(<<"\\", "'">>), Str(<<"\\", "\"">>),
     Str(<<"\\", "u", "0", "0", "4", "1">>), Str(<<"\\", "u", "0", "0", "4", "1", "\\", "u", "0", "0", "4", "2">>), Str(<<"\\", "u", "0", "0", "e", "9", "\\", "u", "2", "0", "a", "c">>), Str(<<"a", "\\", "u", "0", "0", "4", "1", "b">>), Str(<<"\\", "u", "0", "0", "4", "1", "\\", "n">>),
     Str(<<"\\", "u", "d", "8", "3", "d", "\\", "u", "d", "e", "0", "0">>), Str(<<"\\", "u", "D", "8", "3", "D", "\\", "u", "D", "E", "0", "0">>), Str(<<"\\", "u", "d", "8", "3", "d">>), Str(<<"\\", "u", "d", "e", "0", "0">>), Str(<<"\\", "u", "d", "8", "3", "d", "\\", "u", "0", "0", "4", "1">>),
     Str(<<"\\", "u", "0", "0", "4", "1", "\\", "u", "d", "e", "0", "0">>), Str(<<"\\", "u", "d", "e", "0", "0", "\\", "u", "d", "8", "3", "d">>), Str(<<"\\", "u", "d", "8", "3", "d", "A">>), Str(<<"\\", "b", "\\", "f">>)}

QuotedNameQuery(quote, body) == Str(<<"$", "[">>) \o <<quote>> \o body \o <<quote>> \o Str(<<"]">>)

QuotedComparandQuery(quote, body) ==
    Str(<<"$", "[", "?", "@", ".", "a", " ", "=", "=", " ">>) \o <<quote>> \o body \o <<quote>> \o Str(<<"]">>)

EscapeQueries ==
    {QuotedNameQuery(quote, body) : quote \in {CharCode("'"), CharCode("\"")}, body \in EscapeBodies}
    \cup {QuotedComparandQuery(quote, body) :
            quote \in {CharCode("'"), CharCode("\"")}, body \in EscapeBodies}

\* Bracketed selections of one or two selectors, with and without the
\* commas: well formed, and with a leading comma, a trailing comma, a
\* doubled comma, or whitespace in the place of the comma.
SelectorTexts == {Str(<<"1">>), Str(<<"'", "a", "'">>), Str(<<"*">>), Str(<<"1", ":", "2">>), Str(<<"?", "@", ".", "a">>)}

BracketedQuery(selection) == Str(<<"$", "[">>) \o selection \o Str(<<"]">>)

SeparatedSelections ==
    {BracketedQuery(x) : x \in SelectorTexts}
    \cup {BracketedQuery(x \o comma \o y) :
            x \in SelectorTexts, y \in SelectorTexts, comma \in {Str(<<",">>), Str(<<",", " ">>)}}

LeadingCommaSelections == {BracketedQuery(Str(<<",">>) \o x) : x \in SelectorTexts}

TrailingCommaSelections ==
    {BracketedQuery(x \o comma) : x \in SelectorTexts, comma \in {Str(<<",">>), Str(<<",", " ">>)}}
    \cup {BracketedQuery(x \o Str(<<",">>) \o y \o Str(<<",">>)) : x \in SelectorTexts, y \in SelectorTexts}

DoubledCommaSelections ==
    {BracketedQuery(x \o Str(<<",", ",">>) \o y) : x \in SelectorTexts, y \in SelectorTexts}

\* (an integer after a slice is left to the queries on slices)
MissingCommaSelections ==
    {BracketedQuery(x \o Str(<<" ">>) \o y) : x \in SelectorTexts \ {Str(<<"1", ":", "2">>)}, y \in SelectorTexts}

CommaQueries ==
    SeparatedSelections \cup LeadingCommaSelections \cup TrailingCommaSelections
    \cup DoubledCommaSelections \cup MissingCommaSelections

\* Slices whose integers are separated by colons, and selections in which
\* whitespace stands between two integers.
ColonSeparatedSlices ==
    {Str(<<"$", "[", "1", ":", "2", ":", "3", "]">>), Str(<<"$", "[", "1", " ", ":", " ", "2", " ", ":", " ", "3", "]">>), Str(<<"$", "[", ":", "1", "]">>), Str(<<"$", "[", ":", " ", "1", "]">>), Str(<<"$", "[", ":", ":", "1", "]">>), Str(<<"$", "[", "1", ":", ":", "2", "]">>), Str(<<"$", "[", ":", "1", ":", "2", "]">>), Str(<<"$", "[", "1", ":", "2", ",", " ", "3", "]">>)}

WhitespaceSeparatedSlices ==
    {Str(<<"$", "[", "1", ":", "2", " ", "3", "]">>), Str(<<"$", "[", ":", "1", " ", "2", "]">>), Str(<<"$", "[", "1", ":", " ", "2", " ", "3", "]">>), Str(<<"$", "[", "1", " ", "2", ":", "3", "]">>), Str(<<"$", "[", "1", " ", "2", ":", "]">>), Str(<<"$", "[", ":", ":", "1", " ", "2", "]">>), Str(<<"$", "[", "1", ":", "2", ":", "3", " ", "4", "]">>),
     Str(<<"$", "[", "1", " ", "2", " ", "3", "]">>), Str(<<"$", "[", ":", " ", "1", " ", "2", "]">>), Str(<<"$", "[", "-", "1", ":", "-", "2", " ", "-", "3", "]">>), Str(<<"$", "[", "0", ",", " ", "1", ":", "2", " ", "3", "]">>), Str(<<"$", "[", "?", "@", "[", "1", ":", "2", " ", "3", "]", "]">>)}

SliceQueries ==
    ColonSeparatedSlices \cup WhitespaceSeparatedSlices \cup {Str(<<"$", "[", "1", ":", "2", ":", "3", ":", "4", "]">>), Str(<<"$", "[", ":", ":", ":", "]">>)}

\* The queries the harness compiles; the calls are every function name
\* with up to MaxArgs arguments.
ParseQueries ==
    LET Calls == {CallText(name, args) :
                    name \in FunctionNames,
                    args \in UNION {[1..n -> Arguments] : n \in 0..MaxArgs}}
    IN  SelectorQueries
        \cup IndexQueries
        \cup SliceQueries
        \cup CommaQueries
        \cup EscapeQueries
        \cup {FilterQuery(body) : body \in FilterBodies}
        \cup {FilterQuery(call) : call \in Calls}
        \cup {FilterQuery(call \o Str(<<" ", "=", "=", " ", "1">>)) : call \in Calls}

\* Parser::new(), in a build with or without debug assertions
InitParse ==
    /\ IdleSlice
    /\ IdleEval
    /\ IdleRegex
    /\ IdleLex
    /\ \E debug_assertions \in BOOLEAN : ps_parser = Parser_new(debug_assertions)
    /\ ps_added = 0
    /\ ps_query = <<>>
    /\ ps_result = <<>>
    /\ ps_text = <<>>
    /\ ps_again = <<>>
    /\ ps_pc = "new"

\* parser.add_function(name, params, returns)
AddFunction ==
    /\ ps_pc = "new"
    /\ ps_added < MaxCustom
    /\ \E f \in CustomFunctions : ps_parser' = add_function(ps_parser, f[1], f[2], f[3])
    /\ ps_added' = ps_added + 1
    /\ UNCHANGED <<ps_query, ps_result, ps_text, ps_again, ps_pc>>
    /\ UNCHANGED <<varsSlice, varsEval, varsRegex, varsLex>>

\* parser.parse(query)
Parse ==
    /\ ps_pc = "new"
    /\ \E query \in ParseQueries :
        /\ ps_query' = query
        /\ ps_result' = parse(ps_parser, query)
    /\ ps_pc' = "parsed"
    /\ UNCHANGED <<ps_parser, ps_added, ps_text, ps_again>>
    /\ UNCHANGED <<varsSlice, varsEval, varsRegex, varsLex>>

\* query.to_string() of the Query parse returned
Display ==
    /\ ps_pc = "parsed"
    /\ ps_result.tag = "Ok"
    /\ ps_text' = Query_fmt(ps_result.val)
    /\ ps_pc' = "displayed"
    /\ UNCHANGED <<ps_parser, ps_added, ps_query, ps_result, ps_again>>
    /\ UNCHANGED <<varsSlice, varsEval, varsRegex, varsLex>>

\* parser.parse(text) of the displayed text
Reparse ==
    /\ ps_pc = "displayed"
    /\ ps_again' = parse(ps_parser, ps_text)
    /\ ps_pc' = "reparsed"
    /\ UNCHANGED <<ps_parser, ps_added, ps_query, ps_result, ps_text>>
    /\ UNCHANGED <<varsSlice, varsEval, varsRegex, varsLex>>

NextParse == AddFunction \/ Parse \/ Display \/ Reparse

SpecParse == InitParse /\ [][NextParse]_vars

\* ------------------------------------------------- the accepted query's tree

\* parse has returned, and returned Ok(query)
Accepted == ps_pc \in {"parsed", "displayed", "reparsed"} /\ ps_result.tag = "Ok"

\* parse has returned, and returned an Err
Rejected == ps_pc \in {"parsed", "displayed", "reparsed"} /\ ps_result.tag = "Err"

\* Every filter expression of a query with the place it stands in: the
\* expression that is a filter's whole body, an operand of && or ||, the
\* operand of !, an operand of a comparison, an argument of a call.
RECURSIVE Subexpressions(_, _)
RECURSIVE QuerySubexpressions(_)
Subexpressions(place, kind) ==
    <<[place |-> place, kind |-> kind]>> \o
    CASE kind[1] = "Not" -> Subexpressions("operand of !", kind[2])
      [] kind[1] = "Logical" ->
            Subexpressions("logical operand", kind[2])
            \o Subexpressions("logical operand", kind[4])
      [] kind[1] = "Comparison" ->
            Subexpressions("comparison operand", kind[2])
            \o Subexpressions("comparison operand", kind[4])
      [] kind[1] = "Function" ->
            Flatten([i \in 1..Len(kind[3]) |-> Subexpressions("argument", kind[3][i])])
      [] kind[1] \in {"RelativeQuery", "RootQuery"} -> QuerySubexpressions(kind[2])
      [] OTHER -> <<>>

QuerySubexpressions(segments) ==
    Flatten([i \in 1..Len(segments) |->
        Flatten([j \in 1..Len(segments[i][2]) |->
            IF segments[i][2][j][1] = "Filter"
            THEN Subexpressions("filter body", segments[i][2][j][2])
            ELSE <<>>])])

LogicalPlaces == {"filter body", "logical operand", "operand of !"}

IsLiteralKind(kind) == kind[1] \in {"True", "False", "Null", "String", "Int", "Float"}

IsQueryKind(kind) == kind[1] \in {"RelativeQuery", "RootQuery"}

\* A query of child segments with one name or index selector each.
IsSingularQueryKind(kind) ==
    /\ IsQueryKind(kind)
    /\ \A i \in 1..Len(kind[2]) :
        /\ kind[2][i][1] = "Child"
        /\ Len(kind[2][i][2]) = 1
        /\ kind[2][i][2][1][1] \in {"Name", "Index"}

\* A call of a function registered with the given return type.
IsCallReturning(kind, type) ==
    /\ kind[1] = "Function"
    /\ kind[2] \in DOMAIN ps_parser.functions
    /\ ps_parser.functions[kind[2]].return_type = type

\* ----------------------------------------------------------------- claim C3

\* A literal, a singular query or a call of a Value function.
C3_Comparable(kind) ==
    IsLiteralKind(kind) \/ IsSingularQueryKind(kind) \/ IsCallReturning(kind, "Value")

\* C3: in every query the parser accepts, both operands of every
\* comparison are a literal, a singular query or a call of a function
\* whose registered return type is Value.  The parser accepts
\* $[?!@.a == 1], $[?@.a == 1 == 1] and $[?@.a == 1 && @.a == 1 == 1],
\* whose comparisons have a ! expression, a comparison and a logical
\* expression for an operand.
C3_ComparisonOperandsAreValues ==
    Accepted =>
        LET subs == QuerySubexpressions(ps_result.val)
        IN  \A i \in 1..Len(subs) :
                subs[i].place = "comparison operand" => C3_Comparable(subs[i].kind)

\* ----------------------------------------------------------------- claim C4

\* C4: no accepted query has a call of a Value function where a logical
\* value is required, as a filter's whole body or as an operand of &&, ||
\* or !.  The parser accepts $[?count(@.*) && @.a] and $[?!count(@.*)].
C4_ValueCallsAreCompared ==
    Accepted =>
        LET subs == QuerySubexpressions(ps_result.val)
        IN  \A i \in 1..Len(subs) :
                subs[i].place \in LogicalPlaces
                    => ~IsCallReturning(subs[i].kind, "Value")

\* ----------------------------------------------------------------- claim C5

\* C5: no accepted query has a literal as a filter's whole body or as an
\* operand of &&, || or !.  The parser accepts $[?!true].
C5_LiteralsAreCompared ==
    Accepted =>
        LET subs == QuerySubexpressions(ps_result.val)
        IN  \A i \in 1..Len(subs) :
                subs[i].place \in LogicalPlaces => ~IsLiteralKind(subs[i].kind)

\* ----------------------------------------------------------------- claim C6

\* Whether an argument is of a parameter's class.
C6_ArgumentMatches(kind, type) ==
    CASE type = "Value" ->
            IsLiteralKind(kind) \/ IsSingularQueryKind(kind)
            \/ IsCallReturning(kind, "Value")
      [] type = "Nodes" -> IsQueryKind(kind) \/ IsCallReturning(kind, "Nodes")
      [] type = "Logical" ->
            IsQueryKind(kind) \/ kind[1] \in {"Comparison", "Logical"}

\* Whether a call has as many arguments as its registered signature has
\* parameters, each of its parameter's class.
C6_CallTypeChecks(kind) ==
    /\ kind[2] \in DOMAIN ps_parser.functions
    /\ LET param_types == ps_parser.functions[kind[2]].param_types
       IN  /\ Len(kind[3]) = Len(param_types)
           /\ \A i \in 1..Len(param_types) :
                C6_ArgumentMatches(kind[3][i], param_types[i])

\* The arguments the harness writes, as the parser reads them.
C6_ArgumentKind(text) ==
    CASE text = Str(<<"@", ".", "a">>) -> FxRelativeQuery(<<Child(<<Name(Str(<<"a">>))>>)>>)
      [] text = Str(<<"@", ".", "*">>) -> FxRelativeQuery(<<Child(<<Wild>>)>>)
      [] text = Str(<<"1">>) -> FxInt(1)
      [] text = Str(<<"1", " ", "=", "=", " ", "1">>) -> FxComparison(FxInt(1), "Eq", FxInt(1))
      [] text = Str(<<"c", "o", "u", "n", "t", "(", "@", ".", "*", ")">>) ->
            FxFunction(count_name, <<FxRelativeQuery(<<Child(<<Wild>>)>>)>>)
      [] text = Str(<<"f", "o", "o", "(", "@", ".", "*", ")">>) ->
            FxFunction(foo_name, <<FxRelativeQuery(<<Child(<<Wild>>)>>)>>)

\* The calls the harness writes, each with the query that compares it
\* with 1: <<query, call>>.
C6_Written ==
    {<<FilterQuery(CallText(name, args) \o Str(<<" ", "=", "=", " ", "1">>)),
       FxFunction(name, [i \in 1..Len(args) |-> C6_ArgumentKind(args[i])])>> :
        name \in FunctionNames,
        args \in UNION {[1..n -> Arguments] : n \in 0..MaxArgs}}

\* Whether every function a written call names is registered, and whether
\* the call or a call among its arguments does not type-check.
C6_AllRegistered(call) ==
    LET subs == Subexpressions("comparison operand", call)
    IN  \A i \in 1..Len(subs) :
            subs[i].kind[1] = "Function"
                => subs[i].kind[2] \in DOMAIN ps_parser.functions

C6_IllTyped(call) ==
    LET subs == Subexpressions("comparison operand", call)
    IN  \E i \in 1..Len(subs) :
            subs[i].kind[1] = "Function" /\ ~C6_CallTypeChecks(subs[i].kind)

\* C6: every function call of an accepted query has as many arguments as
\* its registered signature has parameters, each of its parameter's class.
\* A query that compares a call of registered functions that does not
\* type-check is rejected with a TypeError, and $[?count()] with the
\* message "count() takes 1 argument but 0 were given".
C6_CallsTypeCheck ==
    /\ Accepted =>
        LET subs == QuerySubexpressions(ps_result.val)
        IN  \A i \in 1..Len(subs) :
                subs[i].kind[1] = "Function" => C6_CallTypeChecks(subs[i].kind)
    /\ ps_pc \in {"parsed", "displayed", "reparsed"} =>
        \A written \in C6_Written :
            (written[1] = ps_query /\ C6_AllRegistered(written[2])
             /\ C6_IllTyped(written[2]))
                => Rejected /\ ps_result.err.error = "TypeError"
    /\ (ps_pc \in {"parsed", "displayed", "reparsed"}
        /\ ps_query = FilterQuery(CallText(count_name, <<>>)))
        => ps_result =
            RErr(JSONPathError("TypeError",
                    Fmt("{}() takes {} argument{} but {} were given",
                        <<Chars(count_name), Chars(Str(<<"1">>)), Chars(<<>>), Chars(Str(<<"0">>))>>),
                    <<3, 8>>))

\* An accepted query with a call whose argument is a call.
C6_Witness ==
    /\ Accepted
    /\ ps_pc = "parsed"
    /\ LET subs == QuerySubexpressions(ps_result.val)
       IN  \E i \in 1..Len(subs) :
            /\ subs[i].kind[1] = "Function"
            /\ Len(subs[i].kind[3]) = 1
            /\ subs[i].kind[3][1][1] = "Function"

\* ----------------------------------------------------------------- claim C9

\* C9: the displayed text of an accepted query is accepted, and parses to
\* an identical query.  $["a'b"] is displayed as $['a'b'], which is
\* rejected; $[1:2] is displayed as $[1:2:1], which parses to a slice with
\* a step where the query had none.
C9_DisplayRoundTrips ==
    ps_pc = "reparsed" => ps_again.tag = "Ok" /\ ps_again.val = ps_result.val

\* ------------------------------------------------ regular expressions

\* The regex crate and the iregexp crate are libraries the functions call.
\* Both are modelled for patterns written with letters, digits and the
\* characters . * + ? | ( ) ^ $ and : (no escapes, no character classes,
\* no counted repetition), which is what the harness draws patterns from.
\* A parsed pattern is a tree: Lit, Any, Start, End, Cat, Alt, Star, Plus, Opt.

ReOk(node, pos) == [ok |-> TRUE, node |-> node, pos |-> pos]
ReErr == [ok |-> FALSE]

\* true at position i of p when the character there is one of chars
re_at(p, i, chars) == i <= Len(p) /\ p[i] \in chars

RECURSIVE re_parse_alt(_, _, _)
RECURSIVE re_alt_loop(_, _, _, _)
RECURSIVE re_cat_loop(_, _, _, _)
RECURSIVE re_cat_then(_, _, _, _)
RECURSIVE re_parse_atom(_, _, _)
RECURSIVE re_quantify(_, _, _)

\* alternation: branch *( "|" branch )
re_parse_alt(p, i, dialect) ==
    re_alt_loop(p, dialect, <<>>, re_cat_loop(p, dialect, <<>>, i))

re_alt_loop(p, dialect, branches, r) ==
    IF ~r.ok THEN r
    ELSE IF re_at(p, r.pos, {CharCode("|")})
    THEN re_alt_loop(p, dialect, Append(branches, r.node),
                     re_cat_loop(p, dialect, <<>>, r.pos + 1))
    ELSE ReOk(<<"Alt", Append(branches, r.node)>>, r.pos)

\* branch: *piece, up to "|", ")" or the end
re_cat_loop(p, dialect, pieces, i) ==
    IF i > Len(p) \/ re_at(p, i, {CharCode("|"), CharCode(")")})
    THEN ReOk(<<"Cat", pieces>>, i)
    ELSE re_cat_then(p, dialect, pieces,
                     re_quantify(p, dialect, re_parse_atom(p, i, dialect)))

re_cat_then(p, dialect, pieces, r) ==
    IF ~r.ok THEN r ELSE re_cat_loop(p, dialect, Append(pieces, r.node), r.pos)

\* atom: a group, an anchor (regex), the dot or a literal character.  In an
\* I-Regexp ^ and $ are normal characters (RFC 9485, NormalChar) and "(?:"
\* is not a group; a quantifier with nothing before it is an error in both.
re_parse_atom(p, i, dialect) ==
    CASE re_at(p, i, {CharCode("(")}) ->
            LET body == IF dialect = "regex" /\ re_at(p, i + 1, {CharCode("?")})
                           /\ re_at(p, i + 2, {CharCode(":")})
                        THEN i + 3 ELSE i + 1
                close(r) == IF r.ok /\ re_at(p, r.pos, {CharCode(")")})
                            THEN ReOk(r.node, r.pos + 1) ELSE ReErr
            IN  close(re_parse_alt(p, body, dialect))
      [] re_at(p, i, {CharCode("*"), CharCode("+"), CharCode("?")}) -> ReErr
      [] re_at(p, i, {CharCode(".")}) -> ReOk(<<"Any">>, i + 1)
      [] re_at(p, i, {CharCode("^")}) ->
            ReOk(IF dialect = "regex" THEN <<"Start">> ELSE <<"Lit", p[i]>>, i + 1)
      [] re_at(p, i, {CharCode("$")}) ->
            ReOk(IF dialect = "regex" THEN <<"End">> ELSE <<"Lit", p[i]>>, i + 1)
      [] OTHER -> ReOk(<<"Lit", p[i]>>, i + 1)

\* piece: atom [ quantifier ]; the regex crate lets quantifiers pile up
re_quantify(p, dialect, r) ==
    IF ~r.ok \/ ~re_at(p, r.pos, {CharCode("*"), CharCode("+"), CharCode("?")}) THEN r
    ELSE LET node == CASE p[r.pos] = CharCode("*") -> <<"Star", r.node>>
                       [] p[r.pos] = CharCode("+") -> <<"Plus", r.node>>
                       [] p[r.pos] = CharCode("?") -> <<"Opt", r.node>>
         IN  IF dialect = "regex"
             THEN re_quantify(p, dialect, ReOk(node, r.pos + 1))
             ELSE ReOk(node, r.pos + 1)

\* the whole pattern
re_parse(p, dialect) ==
    LET whole(r) == IF r.ok /\ r.pos = Len(p) + 1 THEN ReOk(r.node, r.pos) ELSE ReErr
    IN  whole(re_parse_alt(p, 1, dialect))

\* The positions of s a match of node may end at when it starts at
\* position i (positions count the characters before them, from 0).
RECURSIVE re_ends(_, _, _)
RECURSIVE re_ends_all(_, _, _)
RECURSIVE re_ends_cat(_, _, _)
RECURSIVE re_closure(_, _, _)

re_ends_all(node, s, from) == UNION {re_ends(node, s, i) : i \in from}

re_ends_cat(pieces, s, from) ==
    IF Len(pieces) = 0 THEN from
    ELSE re_ends_cat(Tail(pieces), s, re_ends_all(Head(pieces), s, from))

re_closure(node, s, from) ==
    LET more(reached) == IF reached \subseteq from THEN from
                      ELSE re_closure(node, s, from \cup reached)
    IN  more(re_ends_all(node, s, from))

re_ends(node, s, i) ==
    CASE node[1] = "Lit" -> IF i < Len(s) /\ s[i + 1] = node[2] THEN {i + 1} ELSE {}
      [] node[1] = "Any" -> IF i < Len(s) /\ s[i + 1] # 10 THEN {i + 1} ELSE {}
      [] node[1] = "Start" -> IF i = 0 THEN {i} ELSE {}
      [] node[1] = "End" -> IF i = Len(s) THEN {i} ELSE {}
      [] node[1] = "Cat" -> re_ends_cat(node[2], s, {i})
      [] node[1] = "Alt" -> UNION {re_ends(node[2][k], s, i) : k \in 1..Len(node[2])}
      [] node[1] = "Star" -> re_closure(node[2], s, {i})
      [] node[1] = "Plus" -> re_closure(node[2], s, re_ends(node[2], s, i))
      [] node[1] = "Opt" -> {i} \cup re_ends(node[2], s, i)

\* Regex::new(pattern): Ok(Regex) or Err
Regex_new(pattern) ==
    LET result(r) == IF r.ok THEN ROk(r.node) ELSE RErr("regex::Error")
    IN  result(re_parse(pattern, "regex"))

\* Regex::is_match(s): there is a match somewhere in s
Regex_is_match(re, s) == \E i \in 0..Len(s) : re_ends(re, s, i) # {}

\* A variant of the check that accepts every pattern.
iregexp_check_accepts_all(pattern) == TRUE

\* iregexp::check(pattern): the pattern is an I-Regexp
iregexp_check(pattern) == re_parse(pattern, "iregexp").ok

\* map_regex: the pattern as it is
map_regex(pattern) == pattern

\* full_match
full_match(pattern) ==
    IF ~(Len(pattern) > 0 /\ pattern[1] = CharCode("^"))
       /\ ~(Len(pattern) > 0 /\ pattern[Len(pattern)] = CharCode("$"))
    THEN map_regex(Str(<<"^", "(", "?", ":">>) \o pattern \o Str(<<")", "$">>))
    ELSE map_regex(pattern)

\* ---------------------------------------------- match and search (iter)

\* LruCache<String, Regex>: the entries from the most recently used to the
\* least recently used.
CacheCapacity == 100

LruCache_new(cap) == [cap |-> cap, entries |-> <<>>]

LruCache_find(cache, k) ==
    IF \E i \in 1..Len(cache.entries) : cache.entries[i][1] = k
    THEN CHOOSE i \in 1..Len(cache.entries) : cache.entries[i][1] = k
    ELSE 0

LruCache_without(entries, i) ==
    SubSeq(entries, 1, i - 1) \o SubSeq(entries, i + 1, Len(entries))

\* A variant of get that answers with the entry used last, whatever its key.
LruCache_get_latest(cache, k) ==
    [cache |-> cache,
     value |-> IF Len(cache.entries) = 0 THEN None ELSE Some(cache.entries[1][2])]

\* LruCache::get: the value under the key, which becomes the most recent
LruCache_get(cache, k) ==
    LET i == LruCache_find(cache, k)
    IN  IF i = 0 THEN [cache |-> cache, value |-> None]
        ELSE [cache |-> [cache EXCEPT !.entries =
                            <<cache.entries[i]>> \o LruCache_without(cache.entries, i)],
              value |-> Some(cache.entries[i][2])]

\* LruCache::push: a present key gets the value and becomes the most
\* recent; at capacity the least recently used entry goes.
LruCache_push(cache, k, v) ==
    LET i == LruCache_find(cache, k)
        kept == IF i # 0 THEN LruCache_without(cache.entries, i)
                ELSE IF Len(cache.entries) = cache.cap
                THEN SubSeq(cache.entries, 1, Len(cache.entries) - 1)
                ELSE cache.entries
    IN  [cache EXCEPT !.entries = <<<<k, v>>>> \o kept]

\* Mutex::lock returns when no thread holds the mutex (0: no holder).
\* A variant that returns at once:
Mutex_lock_returns_at_once(holder) == TRUE

Mutex_lock_returns(holder) == holder = 0

\* The pattern the function compiles: Match compiles full_match(p), Search
\* compiles map_regex(p).
compiled_pattern(fn, p) ==
    IF fn = "match" THEN full_match(p) ELSE map_regex(p)

\* --------------------------------------------------- the threads' harness

\* Threads that share the static Environment, and evaluations they start.
MaxThreads == 2
MaxEvals == 2

RxThreads == 1..MaxThreads

\* The documents: arrays of strings, of a string and a number, and of a
\* number above i64::MAX.
RxDocs ==
    { JArray(<<JString(Str(<<"a", "b">>)), JString(Str(<<"a">>))>>),
      JArray(<<JString(Str(<<"b", "a">>)), JInt(1)>>),
      JArray(<<JInt(I64Max + 1)>>) }

\* The patterns: I-Regexps, "(" which neither library accepts, and "a**"
\* which is a regex and no I-Regexp.
RxPatterns == {Str(<<"a">>), Str(<<"^", "a">>), Str(<<"a", ".">>), Str(<<"b", "|", "a">>), Str(<<"(">>), Str(<<"a", "*", "*">>)}

\* $[?match(@, 'p')] and $[?search(@, 'p')]
RxExpression(fn, p) ==
    FxFunction(IF fn = "match" THEN match_name ELSE search_name,
               <<FxRelativeQuery(q_current), FxString(p)>>)

\* A cache that n earlier calls with n patterns have filled.
RxFilled(fn, n) ==
    [cap |-> CacheCapacity,
     entries |-> [k \in 1..n |->
                    <<ToDigits(n - k),
                      Regex_new(compiled_pattern(fn, ToDigits(n - k))).val>>]]

RxIdleThread ==
    [pc |-> "idle", fn |-> "", doc |-> <<>>, p |-> <<>>, i |-> 0, nodes |-> <<>>,
     s |-> <<>>, re |-> <<>>, rv |-> FALSE, hits |-> 0]

InitRegex ==
    /\ IdleSlice
    /\ IdleEval
    /\ IdleParse
    /\ IdleLex
    /\ \E n \in {0, CacheCapacity} :
          rx_cache = [match |-> RxFilled("match", n), search |-> RxFilled("search", n)]
    /\ rx_doc \in RxDocs
    /\ rx_p \in RxPatterns
    /\ rx_mutex = [match |-> 0, search |-> 0]
    /\ rx_th = [t \in RxThreads |-> RxIdleThread]
    /\ rx_compiled = {}
    /\ rx_done = <<>>
    /\ rx_evals = 0

\* find(query, value): the root node is an array, the filter selector makes
\* an ArrayFilterIter over its elements
RxFind(t) ==
    /\ rx_th[t].pc = "idle"
    /\ rx_evals < MaxEvals
    /\ \E fn \in {"match", "search"} :
          rx_th' = [rx_th EXCEPT ![t] =
                       [RxIdleThread EXCEPT !.pc = "next", !.fn = fn, !.doc = rx_doc,
                                            !.p = rx_p]]
    /\ rx_evals' = rx_evals + 1
    /\ UNCHANGED <<rx_doc, rx_p, rx_cache, rx_mutex, rx_compiled, rx_done>>
    /\ UNCHANGED <<varsSlice, varsEval, varsParse, varsLex>>

\* ArrayFilterIter::next up to the call of the function: the next element,
\* FilterExpression::evaluate of the arguments, unpack_result, and the match
\* on the arguments in Match::call and Search::call.  After the last
\* element the evaluation has finished.
RxNext(t) ==
    LET th == rx_th[t]
        sig == standard_functions[RxExpression(th.fn, th.p)[2]]
        current == th.doc[2][th.i + 1]
        expr == RxExpression(th.fn, th.p)
        args == [k \in 1..Len(expr[3]) |->
                    unpack_result(evaluate(expr[3][k], current, th.doc),
                                  sig.param_types, k - 1)]
    IN  /\ th.pc = "next"
        /\ IF th.i = Len(th.doc[2])
           THEN /\ rx_done' = Append(rx_done, [fn |-> th.fn, doc |-> th.doc, p |-> th.p,
                                                nodes |-> th.nodes, hits |-> th.hits])
                /\ rx_th' = [rx_th EXCEPT ![t] = RxIdleThread]
           ELSE /\ rx_done' = rx_done
                /\ rx_th' = [rx_th EXCEPT ![t] =
                      CASE \E k \in 1..Len(args) : args[k][1] = "Panic" ->
                              [th EXCEPT !.pc = "panicked"]
                        [] args[1][1] = "String" /\ args[2][1] = "String" ->
                              [th EXCEPT !.pc = "lock", !.i = th.i + 1, !.s = args[1][2]]
                        [] OTHER ->
                              [th EXCEPT !.i = th.i + 1]]
        /\ UNCHANGED <<rx_doc, rx_p, rx_cache, rx_mutex, rx_compiled, rx_evals>>
        /\ UNCHANGED <<varsSlice, varsEval, varsParse, varsLex>>

\* let mut cache = self.cache.lock().unwrap();
RxLock(t) ==
    /\ rx_th[t].pc = "lock"
    /\ Mutex_lock_returns(rx_mutex[rx_th[t].fn])
    /\ rx_mutex' = [rx_mutex EXCEPT ![rx_th[t].fn] = t]
    /\ rx_th' = [rx_th EXCEPT ![t].pc = "get"]
    /\ UNCHANGED <<rx_doc, rx_p, rx_cache, rx_compiled, rx_done, rx_evals>>
    /\ UNCHANGED <<varsSlice, varsEval, varsParse, varsLex>>

\* match cache.get(p) { Some(re) => Bool(re.is_match(s)), None => .. }
RxGet(t) ==
    LET th == rx_th[t]
        got == LruCache_get(rx_cache[th.fn], th.p)
    IN  /\ th.pc = "get"
        /\ rx_cache' = [rx_cache EXCEPT ![th.fn] = got.cache]
        /\ rx_th' = [rx_th EXCEPT ![t] =
              IF IsSome(got.value)
              THEN [th EXCEPT !.pc = "unlock", !.hits = th.hits + 1,
                              !.rv = Regex_is_match(Unwrap(got.value), th.s)]
              ELSE [th EXCEPT !.pc = "check"]]
        /\ UNCHANGED <<rx_doc, rx_p, rx_mutex, rx_compiled, rx_done, rx_evals>>
        /\ UNCHANGED <<varsSlice, varsEval, varsParse, varsLex>>

\* if !iregexp::check(p) { return Bool(false); }
RxCheck(t) ==
    /\ rx_th[t].pc = "check"
    /\ rx_th' = [rx_th EXCEPT ![t] =
          IF ~iregexp_check(rx_th[t].p)
          THEN [rx_th[t] EXCEPT !.pc = "unlock", !.rv = FALSE]
          ELSE [rx_th[t] EXCEPT !.pc = "compile"]]
    /\ UNCHANGED <<rx_doc, rx_p, rx_cache, rx_mutex, rx_compiled, rx_done, rx_evals>>
    /\ UNCHANGED <<varsSlice, varsEval, varsParse, varsLex>>

\* if let Ok(re) = Regex::new(..) { let rv = re.is_match(s); .. } else { Bool(false) }
RxCompile(t) ==
    LET th == rx_th[t]
        new == Regex_new(compiled_pattern(th.fn, th.p))
    IN  /\ th.pc = "compile"
        /\ rx_compiled' = rx_compiled \cup {<<th.fn, th.p>>}
        /\ rx_th' = [rx_th EXCEPT ![t] =
              IF new.tag = "Ok"
              THEN [th EXCEPT !.pc = "push", !.re = new.val,
                              !.rv = Regex_is_match(new.val, th.s)]
              ELSE [th EXCEPT !.pc = "unlock", !.rv = FALSE]]
        /\ UNCHANGED <<rx_doc, rx_p, rx_cache, rx_mutex, rx_done, rx_evals>>
        /\ UNCHANGED <<varsSlice, varsEval, varsParse, varsLex>>

\* cache.push(p.to_owned(), re);
RxPush(t) ==
    LET th == rx_th[t]
    IN  /\ th.pc = "push"
        /\ rx_cache' = [rx_cache EXCEPT ![th.fn] = LruCache_push(rx_cache[th.fn], th.p, th.re)]
        /\ rx_th' = [rx_th EXCEPT ![t] = [th EXCEPT !.pc = "unlock", !.re = <<>>]]
        /\ UNCHANGED <<rx_doc, rx_p, rx_mutex, rx_compiled, rx_done, rx_evals>>
        /\ UNCHANGED <<varsSlice, varsEval, varsParse, varsLex>>

\* The guard goes out of scope as call returns, and ArrayFilterIter::next
\* goes on: if is_truthy(..) { Some(self.parent.new_child_element(value, index)) }
\* else { self.next() }
RxUnlock(t) ==
    LET th == rx_th[t]
        parent == Node(th.doc, Str(<<"$">>))
    IN  /\ th.pc = "unlock"
        /\ rx_mutex' = [rx_mutex EXCEPT ![th.fn] = 0]
        /\ rx_th' = [rx_th EXCEPT ![t] =
              [th EXCEPT !.pc = "next", !.s = <<>>, !.rv = FALSE,
                         !.nodes = IF is_truthy(<<"Bool", th.rv>>)
                                   THEN Append(th.nodes,
                                        new_child_element(parent, th.doc[2][th.i], th.i - 1))
                                   ELSE th.nodes]]
        /\ UNCHANGED <<rx_doc, rx_p, rx_cache, rx_compiled, rx_done, rx_evals>>
        /\ UNCHANGED <<varsSlice, varsEval, varsParse, varsLex>>

NextRegex ==
    \E t \in RxThreads :
        \/ RxFind(t) \/ RxNext(t) \/ RxLock(t) \/ RxGet(t) \/ RxCheck(t)
        \/ RxCompile(t) \/ RxPush(t) \/ RxUnlock(t)

SpecRegex == InitRegex /\ [][NextRegex]_vars

\* ------------------------------------------------------- the lexer's run

\* Queries that end inside a string literal, in a bracketed selection and
\* in a filter.
UnclosedStringQueries ==
    {Str(<<"$", "[", "'">>), Str(<<"$", "[", "\"">>), Str(<<"$", "[", "'", "a">>), Str(<<"$", "[", "\"", "a">>), Str(<<"$", "[", "'", "a", "\"">>), Str(<<"$", "[", "\"", "a", "'">>), Str(<<"$", "[", "'", "a", "\\", "'">>), Str(<<"$", "[", "'", "a", "\\">>), Str(<<"$", "[", "0", ",", " ", "'", "a">>),
     Str(<<"$", "[", "?", "'">>), Str(<<"$", "[", "?", "\"">>), Str(<<"$", "[", "?", "'", "a">>), Str(<<"$", "[", "?", "\"", "a">>), Str(<<"$", "[", "?", "@", ".", "a", " ", "=", "=", " ", "'">>), Str(<<"$", "[", "?", "@", ".", "a", " ", "=", "=", " ", "\"">>), Str(<<"$", "[", "?", "@", ".", "a", " ", "=", "=", " ", "'", "b">>),
     Str(<<"$", "[", "?", "@", ".", "a", " ", "=", "=", " ", "\"", "b">>), Str(<<"$", "[", "?", "@", ".", "a", " ", "=", "=", " ", "\"", "b", "'">>), Str(<<"$", "[", "?", "@", ".", "a", " ", "=", "=", " ", "'", "b", "\\", "'">>), Str(<<"$", "[", "?", "@", "[", "'", "a">>), Str(<<"$", "[", "?", "@", "[", "'">>),
     Str(<<"$", "[", "?", "m", "a", "t", "c", "h", "(", "@", ".", "a", ",", " ", "'">>), Str(<<"$", "[", "?", "m", "a", "t", "c", "h", "(", "@", ".", "a", ",", " ", "'", "a">>)}

\* Filters with parentheses, calls and nested bracketed selections,
\* properly nested and not.
NestedQueries ==
    {Str(<<"$", "[", "?", "c", "o", "u", "n", "t", "(", "@", "[", "?", "@", ".", "a", "]", ")", " ", ">", " ", "1", "]">>), Str(<<"$", "[", "?", "c", "o", "u", "n", "t", "(", "@", "[", "?", "@", ".", "a", "]", ")", " ", "=", "=", " ", "1", "]">>), Str(<<"$", "[", "?", "c", "o", "u", "n", "t", "(", "@", "[", "0", "]", ")", " ", ">", " ", "1", "]">>),
     Str(<<"$", "[", "?", "c", "o", "u", "n", "t", "(", "@", "[", "0", ",", " ", "1", "]", ")", " ", ">", " ", "1", "]">>), Str(<<"$", "[", "?", "c", "o", "u", "n", "t", "(", "@", "[", "'", "a", "'", "]", ")", " ", ">", " ", "1", "]">>), Str(<<"$", "[", "?", "c", "o", "u", "n", "t", "(", "@", "[", "?", "@", ".", "a", ",", " ", "1", "]", ")", " ", ">", " ", "1", "]">>),
     Str(<<"$", "[", "?", "c", "o", "u", "n", "t", "(", "@", "[", "?", "@", ".", "a", ",", " ", "?", "@", ".", "b", "]", ")", " ", ">", " ", "1", "]">>), Str(<<"$", "[", "?", "m", "a", "t", "c", "h", "(", "@", "[", "?", "@", ".", "a", "]", ",", " ", "'", "a", "'", ")", "]">>), Str(<<"$", "[", "?", "m", "a", "t", "c", "h", "(", "@", ".", "a", ",", " ", "@", "[", "?", "@", ".", "b", "]", ")", "]">>),
     Str(<<"$", "[", "?", "@", "[", "?", "@", ".", "a", "]", "]">>), Str(<<"$", "[", "?", "(", "@", "[", "?", "@", ".", "a", "]", ")", "]">>), Str(<<"$", "[", "?", "(", "@", ".", "a", ")", "]">>), Str(<<"$", "[", "?", "(", "(", "@", ".", "a", ")", ")", "]">>), Str(<<"$", "[", "?", "c", "o", "u", "n", "t", "(", "@", "[", "?", "(", "@", ".", "a", ")", "]", ")", " ", ">", " ", "1", "]">>),
     Str(<<"$", "[", "?", "c", "o", "u", "n", "t", "(", "(", "@", "[", "?", "@", ".", "a", "]", ")", ")", " ", ">", " ", "1", "]">>), Str(<<"$", "[", "?", "@", "[", "?", "@", ".", "a", ",", " ", "1", "]", "]">>), Str(<<"$", "[", "?", "@", "[", "?", "@", ".", "a", ",", " ", "?", "@", ".", "b", "]", "]">>),
     Str(<<"$", "[", "?", "@", "[", "?", "c", "o", "u", "n", "t", "(", "@", ".", "*", ")", " ", ">", " ", "1", "]", "]">>), Str(<<"$", "[", "?", "@", "[", "?", "c", "o", "u", "n", "t", "(", "@", "[", "?", "@", ".", "a", "]", ")", " ", ">", " ", "1", "]", "]">>), Str(<<"$", "[", "?", "@", "[", "?", "@", "[", "?", "@", ".", "a", "]", "]", "]">>),
     Str(<<"$", "[", "?", "c", "o", "u", "n", "t", "(", "@", ".", "a", "]">>), Str(<<"$", "[", "?", "(", "@", ".", "a", "]">>), Str(<<"$", "[", "?", "@", ".", "a", ")", "]">>), Str(<<"$", "[", "?", "c", "o", "u", "n", "t", "(", "@", ".", "*", ")", ")", "]">>), Str(<<"$", "[", "?", "c", "o", "u", "n", "t", "(", "@", "[", "0", ")", "]", ")", " ", ">", " ", "1", "]">>),
     Str(<<"$", "[", "?", "c", "o", "u", "n", "t", "(", "@", ".", "*", ",", " ", "@", ".", "a", ")", " ", ">", " ", "1", "]">>), Str(<<"$", "[", "?", "@", ".", "a", " ", "=", "=", " ", "'", "(", "'", "]">>), Str(<<"$", "[", "?", "c", "o", "u", "n", "t", "(", "@", "[", "'", ")", "'", "]", ")", " ", ">", " ", "1", "]">>)}

\* The queries the harness tokenizes.
LexQueries == ParseQueries \cup UnclosedStringQueries \cup NestedQueries

\* tokenize(query): a Lexer is built on the query and run() starts in
\* State::LexRoot.
InitLex ==
    /\ IdleSlice
    /\ IdleEval
    /\ IdleParse
    /\ IdleRegex
    /\ \E query \in LexQueries, debug_assertions \in BOOLEAN :
          lx_l = Lexer_new(query, debug_assertions)
    /\ lx_state = "LexRoot"

\* One turn of the loop of Lexer::run: the function of the current State
\* runs on the Lexer and returns the next State; the loop is left in
\* State::Error and State::EndOfQuery, and by a panic.
LexerRun ==
    /\ lx_state \notin {"none", "Error", "EndOfQuery", "Panic"}
    /\ LET turn(r) == lx_l' = r.l /\ lx_state' = r.state
       IN  turn(Lexer_step(lx_l, lx_state))
    /\ UNCHANGED <<varsSlice, varsEval, varsParse, varsRegex>>

NextLex == LexerRun

SpecLex == InitLex /\ [][NextLex]_vars

\* The run loop has been left.
LexerStopped == lx_state \in {"Error", "EndOfQuery", "Panic"}

LexerTokenKinds == [i \in 1..Len(lx_l.tokens) |-> lx_l.tokens[i].kind[1]]

\* ----------------------------------------------------------------- C11

\* The children of a JSON value: the elements of an array by index, the
\* members of an object in the order the map iterates them.
C11_Arity(value) ==
    IF is_array(value) \/ is_object(value) THEN Len(value[2]) ELSE 0

C11_ChildValue(value, i) ==
    IF is_array(value) THEN value[2][i] ELSE value[2][i][2]

\* The positions of a value and of its descendants: a position is the
\* sequence of child numbers that leads from the value to the descendant.
RECURSIVE C11_Positions(_)
C11_Positions(value) ==
    {<<>>} \cup UNION {{<<i>> \o p : p \in C11_Positions(C11_ChildValue(value, i))} :
                           i \in 1..C11_Arity(value)}

\* Pre-order: a node before its descendants, a child and its descendants
\* before the next child.
C11_Before(p, q) ==
    \/ Len(p) < Len(q) /\ SubSeq(q, 1, Len(p)) = p
    \/ \E k \in 1..Min(Len(p), Len(q)) :
          /\ SubSeq(p, 1, k - 1) = SubSeq(q, 1, k - 1)
          /\ p[k] < q[k]

RECURSIVE C11_PreOrder(_)
C11_PreOrder(positions) ==
    IF positions = {} THEN <<>>
    ELSE LET first == CHOOSE p \in positions :
                          \A q \in positions \ {p} : C11_Before(p, q)
         IN  <<first>> \o C11_PreOrder(positions \ {first})

\* The node at a position below a node, as the evaluator ev_impl names it.
RECURSIVE C11_NodeAt(_, _)
C11_NodeAt(node, p) ==
    IF Len(p) = 0 THEN node
    ELSE LET i == Head(p)
             child == C11_ChildValue(node.value, i)
         IN  C11_NodeAt(
                 CASE ev_impl = "locations" /\ is_array(node.value) ->
                          new_array_element(child, node.location, i - 1)
                   [] ev_impl = "locations" /\ is_object(node.value) ->
                          new_object_member(child, node.location, node.value[2][i][1])
                   [] ev_impl # "locations" /\ is_array(node.value) ->
                          new_child_element(node, child, i - 1)
                   [] ev_impl # "locations" /\ is_object(node.value) ->
                          new_child_member(node, child, node.value[2][i][1]),
                 Tail(p))

\* What the child segment with these selectors gives for one node.
C11_ChildSegment(selectors, node) ==
    IF ev_impl = "locations"
    THEN loc_Segment_resolve(Child(selectors), <<node>>, ev_doc)
    ELSE Segment_resolve(Child(selectors), <<node>>, ev_doc)

\* The child segment's results over the self-and-descendants visit of one
\* input node.
C11_Descend(selectors, node) ==
    LET order == C11_PreOrder(C11_Positions(node.value))
    IN  Flatten([k \in 1..Len(order) |->
            C11_ChildSegment(selectors, C11_NodeAt(node, order[k]))])

\* A descendant segment has just been applied and its nodes collected.
C11_AfterRecursive ==
    /\ ev_impl # "none"
    /\ ev_seg > 1
    /\ ev_query[ev_seg - 1][1] = "Recursive"
    /\ ev_impl = "iter" => it_done

\* C11: the node list after a descendant segment is, for each input node in
\* order, the concatenation over the nodes of its self-and-descendants
\* visit, taken in pre-order (the input first, then array elements by index
\* or object members in map order, recursively), of what the child segment
\* with the same selectors gives for that node; in all three evaluators.
C11_DescendantSegmentIsPreOrder ==
    C11_AfterRecursive =>
        ev_nodes = Flatten([n \in 1..Len(ev_prev) |->
                       C11_Descend(ev_query[ev_seg - 1][2], ev_prev[n])])

\* $..a on {"a": {"a": {"a": null}}}: a selected node that contains the
\* next selected node, three levels deep.
C11_Witness ==
    /\ C11_AfterRecursive
    /\ Len(ev_nodes) >= 3
    /\ \E i \in 1..(Len(ev_nodes) - 1) :
           /\ is_object(ev_nodes[i].value)
           /\ \E m \in 1..Len(ev_nodes[i].value[2]) :
                  ev_nodes[i].value[2][m][2] = ev_nodes[i + 1].value
    /\ \E n \in 1..Len(ev_prev) : \E p \in C11_Positions(ev_prev[n].value) : Len(p) >= 3

\* ----------------------------------------------------------------- C12

\* One call of Match::call or Search::call on strings, from the lock to the
\* return, with no other thread in between.
C12_Call(cache, fn, s, p) ==
    LET got == LruCache_get(cache, p)
        new == Regex_new(compiled_pattern(fn, p))
    IN  CASE IsSome(got.value) ->
                [cache |-> got.cache, rv |-> Regex_is_match(Unwrap(got.value), s)]
          [] ~IsSome(got.value) /\ ~iregexp_check(p) -> [cache |-> got.cache, rv |-> FALSE]
          [] ~IsSome(got.value) /\ iregexp_check(p) /\ new.tag = "Ok" ->
                [cache |-> LruCache_push(got.cache, p, new.val),
                 rv |-> Regex_is_match(new.val, s)]
          [] OTHER -> [cache |-> got.cache, rv |-> FALSE]

\* The nodes of $[?fn(@, 'p')] on doc when the evaluation runs alone and
\* starts with the given cache: element by element from element i + 1.
RECURSIVE C12_Run(_, _, _, _, _, _)
C12_Run(cache, fn, doc, p, i, nodes) ==
    IF i = Len(doc[2]) THEN nodes
    ELSE LET current == doc[2][i + 1]
             call == IF current[1] = "String" THEN C12_Call(cache, fn, current[2], p)
                     ELSE [cache |-> cache, rv |-> FALSE]
         IN  C12_Run(call.cache, fn, doc, p, i + 1,
                     IF call.rv
                     THEN Append(nodes, new_child_element(Node(doc, Str(<<"$">>)), current, i))
                     ELSE nodes)

\* C12: an evaluation of a query on a document returns the node list (the
\* values, their order, their normalized paths) that the first evaluation
\* in a new process returns, whatever evaluations ran before or run beside
\* it and whatever the regex caches of match and search hold.
C12_EvaluationIsDeterministic ==
    \A k \in 1..Len(rx_done) :
        rx_done[k].nodes = C12_Run(LruCache_new(CacheCapacity), rx_done[k].fn,
                                   rx_done[k].doc, rx_done[k].p, 0, <<>>)

\* Two evaluations of the same query with a full cache: the first compiled
\* the pattern and pushed an entry out, the second found it in the cache;
\* both selected nodes.
C12_Witness ==
    \E i, j \in 1..Len(rx_done) :
        /\ i < j
        /\ rx_done[i].fn = rx_done[j].fn
        /\ rx_done[i].nodes # <<>>
        /\ rx_done[i].hits < rx_done[j].hits
        /\ Len(rx_cache[rx_done[i].fn].entries) = CacheCapacity
        /\ rx_cache[rx_done[i].fn].entries[1][1] = rx_p

\* ----------------------------------------------------------------- C13

\* The thread is between the lock and the return of call.
C13_InCall(t) == rx_th[t].pc \in {"get", "check", "compile", "push", "unlock"}

\* A thread inside call holds the mutex of the function it calls.
C13_HoldsMutex ==
    \A t \in RxThreads : C13_InCall(t) => rx_mutex[rx_th[t].fn] = t

\* A step that changes a cache is a step of the thread that holds its
\* mutex, and of no other thread.
C13_StepOfHolder ==
    \A fn \in {"match", "search"} :
        rx_cache'[fn] # rx_cache[fn] =>
            /\ rx_mutex[fn] \in RxThreads
            /\ C13_InCall(rx_mutex[fn])
            /\ \A u \in RxThreads \ {rx_mutex[fn]} : rx_th'[u] = rx_th[u]

\* C13: calls of match (or search) on one function instance access its
\* regex cache under mutual exclusion: the lookup, the compilation and the
\* insertion of one call are not interleaved with another call's access,
\* and every update of the cache is made by the one thread holding the mutex.
C13_CacheUnderMutualExclusion == []C13_HoldsMutex /\ [][C13_StepOfHolder]_vars

\* One thread is compiling while another waits for the same mutex.
C13_Witness ==
    \E t, u \in RxThreads :
        /\ rx_th[t].pc = "compile"
        /\ rx_th[u].pc = "lock"
        /\ rx_th[u].fn = rx_th[t].fn

\* ----------------------------------------------------------------- C14

\* The I-Regexp p matches all of s, or some part of s.
C14_FullMatch(p, s) == Len(s) \in re_ends(re_parse(p, "iregexp").node, s, 0)

C14_PartMatch(p, s) ==
    \E i \in 0..Len(s) : re_ends(re_parse(p, "iregexp").node, s, i) # {}

\* C14: match(s, p) is true exactly when the I-Regexp p matches the whole
\* of s, whatever characters p starts or ends with, and search(s, p) is
\* true exactly when p matches some part of s.
C14_MatchIsFullMatch ==
    \A t \in RxThreads :
        rx_th[t].pc = "unlock" /\ re_parse(rx_th[t].p, "iregexp").ok =>
            rx_th[t].rv = IF rx_th[t].fn = "match"
                          THEN C14_FullMatch(rx_th[t].p, rx_th[t].s)
                          ELSE C14_PartMatch(rx_th[t].p, rx_th[t].s)

\* ----------------------------------------------------------------- C15

\* The pattern is an I-Regexp (RFC 9485).
C15_IsIRegexp(p) == re_parse(p, "iregexp").ok

\* No call returns anything but false for a pattern that is no I-Regexp,
\* and no such pattern has been given to Regex::new.
C15_InvalidIsFalse ==
    /\ \A t \in RxThreads :
          rx_th[t].pc = "unlock" /\ ~C15_IsIRegexp(rx_th[t].p) => rx_th[t].rv = FALSE
    /\ \A c \in rx_compiled : C15_IsIRegexp(c[2])

\* The patterns in the caches are I-Regexps.
C15_CachedAreValid ==
    \A fn \in {"match", "search"} :
        \A k \in 1..Len(rx_cache[fn].entries) :
            C15_IsIRegexp(rx_cache[fn].entries[k][1])

\* A pattern that a step puts into a cache is an I-Regexp.
C15_StoredAreValid ==
    \A fn \in {"match", "search"} :
        \/ rx_cache'[fn] = rx_cache[fn]
        \/ \A p \in {rx_cache'[fn].entries[k][1] : k \in 1..Len(rx_cache'[fn].entries)}
                     \ {rx_cache[fn].entries[k][1] : k \in 1..Len(rx_cache[fn].entries)} :
               C15_IsIRegexp(p)

\* C15: a pattern that is no I-Regexp makes match and search return false,
\* is never given to the regex compiler and never stored in a cache: every
\* pattern in a cache has passed the I-Regexp validation.
C15_InvalidPatternIsFalse ==
    C15_CachedAreValid /\ []C15_InvalidIsFalse /\ [][C15_StoredAreValid]_vars

\* A call returns false for a**, which the regex compiler would take.
C15_Witness ==
    \E t \in RxThreads :
        /\ rx_th[t].pc = "unlock"
        /\ ~C15_IsIRegexp(rx_th[t].p)
        /\ Regex_new(compiled_pattern(rx_th[t].fn, rx_th[t].p)).tag = "Ok"
        /\ rx_th[t].rv = FALSE
        /\ rx_compiled = {}

\* ----------------------------------------------------------------- C16

\* C16: the evaluation of an accepted query on a JSON document completes
\* with a node list, whatever the numbers of the document are: no thread's
\* evaluation ends in a panic.
C16_EvaluationCompletes ==
    \A t \in RxThreads : rx_th[t].pc # "panicked"

\* ----------------------------------------------------------------- C17

\* C17: when the tokens of the query end with an Error token, compiling
\* fails with an error of kind LexerError that carries the message and the
\* span of that token.
C17_LexErrorIsLexerError ==
    LET tokens == tokenize(ps_query, ps_parser.debug_assertions)
        last == tokens.val[Len(tokens.val)]
    IN  (/\ ps_pc \in {"parsed", "displayed", "reparsed"}
         /\ tokens.tag = "Ok"
         /\ Len(tokens.val) > 0
         /\ last.kind[1] = "Error")
            => ps_result = RErr(JSONPathError("LexerError", last.kind[2], last.span))

\* ----------------------------------------------------------------- C18

\* The queries that call the function nosuch, which no parser of the
\* harness has registered, with arguments that are well formed.
C18_UnknownCalls ==
    {FilterQuery(CallText(Str(<<"n", "o", "s", "u", "c", "h">>), args)) :
        args \in UNION {[1..n -> {Str(<<"@", ".", "a">>), Str(<<"@", ".", "*">>), Str(<<"1">>)}] : n \in 0..MaxArgs}}

\* C18: a call of a function that is not registered fails with a NameError
\* whose message is: unknown function 'NAME', the name in single quotes.
C18_UnknownFunctionMessage ==
    (ps_pc \in {"parsed", "displayed", "reparsed"} /\ ps_query \in C18_UnknownCalls)
        => ps_result.tag = "Err"
           /\ ps_result.err.error = "NameError"
           /\ ps_result.err.msg = Fmt("unknown function '{}'", <<Chars(Str(<<"n", "o", "s", "u", "c", "h">>))>>)


\* ------------------------------------------------------------------ C19

\* Whether the text of an index has no redundant leading zero: an optional
\* minus sign, then 0 alone or digits that do not start with 0.
C19_Digits(text) ==
    IF Len(text) > 0 /\ text[1] = CharCode("-") THEN Tail(text) ELSE text

C19_Canonical(text) ==
    /\ Len(C19_Digits(text)) > 0
    /\ \A i \in 1..Len(C19_Digits(text)) : is_digit[C19_Digits(text)[i]]
    /\ (Len(C19_Digits(text)) = 1 \/ C19_Digits(text)[1] # CharCode("0"))

\* Whether a canonical text writes an integer of -(2^53 - 1) ..= 2^53 - 1.
C19_InRange(text) ==
    \/ Len(C19_Digits(text)) < 16
    \/ /\ Len(C19_Digits(text)) = 16
       /\ ~str_lt(Str(<<"9", "0", "0", "7", "1", "9", "9", "2", "5", "4", "7", "4", "0", "9", "9", "1">>), C19_Digits(text))

C19_IndexTexts(tokens) ==
    IF tokens.tag # "Ok" THEN {}
    ELSE {tokens.val[i].kind[2] :
            i \in {j \in 1..Len(tokens.val) : tokens.val[j].kind[1] = "Index"}}

\* The two ends of the range, as an index, as the parts of a slice and
\* in the query of a filter.
C19_BoundaryQueries ==
    {Str(<<"$", "[", "9", "0", "0", "7", "1", "9", "9", "2", "5", "4", "7", "4", "0", "9", "9", "1", "]">>), Str(<<"$", "[", "-", "9", "0", "0", "7", "1", "9", "9", "2", "5", "4", "7", "4", "0", "9", "9", "1", "]">>),
     Str(<<"$", "[", "-", "9", "0", "0", "7", "1", "9", "9", "2", "5", "4", "7", "4", "0", "9", "9", "1", ":", "9", "0", "0", "7", "1", "9", "9", "2", "5", "4", "7", "4", "0", "9", "9", "1", ":", "9", "0", "0", "7", "1", "9", "9", "2", "5", "4", "7", "4", "0", "9", "9", "1", "]">>),
     Str(<<"$", "[", "?", "@", "[", "-", "9", "0", "0", "7", "1", "9", "9", "2", "5", "4", "7", "4", "0", "9", "9", "1", "]", "]">>)}

\* C19: a query is compiled only if each index and each part of a slice in
\* it is written without a redundant leading zero and lies within
\* -(2^53 - 1) ..= 2^53 - 1, and the queries that hold the two ends of that
\* range are compiled.
C19_IndexesAreCanonicalAndInRange ==
    /\ Accepted =>
            \A text \in C19_IndexTexts(tokenize(ps_query, ps_parser.debug_assertions)) :
                C19_Canonical(text) /\ C19_InRange(text)
    /\ (ps_pc \in {"parsed", "displayed", "reparsed"} /\ ps_query \in C19_BoundaryQueries)
            => Accepted

C19_Witness ==
    /\ Accepted
    /\ ps_query = Str(<<"$", "[", "-", "9", "0", "0", "7", "1", "9", "9", "2", "5", "4", "7", "4", "0", "9", "9", "1", ":", "9", "0", "0", "7", "1", "9", "9", "2", "5", "4", "7", "4", "0", "9", "9", "1", ":", "9", "0", "0", "7", "1", "9", "9", "2", "5", "4", "7", "4", "0", "9", "9", "1", "]">>)
    /\ ps_result.val = <<Child(<<Slice(<<Str(<<"-", "9", "0", "0", "7", "1", "9", "9", "2", "5", "4", "7", "4", "0", "9", "9", "1">>), "wide">>,
                                                   <<Str(<<"9", "0", "0", "7", "1", "9", "9", "2", "5", "4", "7", "4", "0", "9", "9", "1">>), "wide">>,
                                                   <<Str(<<"9", "0", "0", "7", "1", "9", "9", "2", "5", "4", "7", "4", "0", "9", "9", "1">>), "wide">>)>>)>>


\* ------------------------------------------------------------------ C20

\* A member name as a normalized path writes it: a backslash before each
\* ' and each \.
RECURSIVE C20_Escaped(_)
C20_Escaped(name) ==
    IF Len(name) = 0 THEN <<>>
    ELSE (IF Head(name) \in {CharCode("'"), CharCode("\\")} THEN <<CharCode("\\"), Head(name)>> ELSE <<Head(name)>>)
         \o C20_Escaped(Tail(name))

\* The normalized paths of value, which is at the path prefix, and of all
\* that it holds.
RECURSIVE C20_NormalizedPaths(_, _)
C20_NormalizedPaths(value, prefix) ==
    {prefix} \cup
    CASE is_object(value) ->
            UNION {C20_NormalizedPaths(value[2][m][2],
                        prefix \o Str(<<"[", "'">>) \o C20_Escaped(value[2][m][1]) \o Str(<<"'", "]">>)) :
                    m \in 1..Len(value[2])}
      [] is_array(value) ->
            UNION {C20_NormalizedPaths(value[2][i],
                        prefix \o Str(<<"[">>) \o ToDigits(i - 1) \o Str(<<"]">>)) :
                    i \in 1..Len(value[2])}
      [] OTHER -> {}

\* The path a node is rendered as: the location of a node of the serde and
\* the iter evaluator, Node::path of a node of the locations evaluator.
C20_Rendered(node) ==
    IF ev_impl = "locations" THEN path(node) ELSE node.location

\* C20: the path each node is rendered as is a normalized path of the
\* document in which each member name stands in single quotes with a
\* backslash before every ' and every \ of the name.
C20_NamesAreEscaped ==
    \A n \in 1..Len(ev_nodes) :
        C20_Rendered(ev_nodes[n]) \in C20_NormalizedPaths(ev_doc, Str(<<"$">>))


\* ------------------------------------------------------------------ C21

\* A child segment of one filter selector has just been applied.
C21_AfterFilter ==
    /\ ev_impl # "none"
    /\ ev_seg > 1
    /\ ev_query[ev_seg - 1][1] = "Child"
    /\ Len(ev_query[ev_seg - 1][2]) = 1
    /\ ev_query[ev_seg - 1][2][1][1] = "Filter"
    /\ ev_impl = "iter" => it_done

\* What the selector yields from the input nodes of that segment.
C21_Select(selector) ==
    Flatten([n \in 1..Len(ev_prev) |->
        IF ev_impl = "locations"
        THEN loc_Selector_resolve(selector, ev_prev[n].value, ev_doc, ev_prev[n].location)
        ELSE Selector_resolve(selector, ev_prev[n], ev_doc)])

C21_Count(nodes, node) == Cardinality({i \in 1..Len(nodes) : nodes[i] = node})

C21_Members(nodes) == {nodes[i] : i \in 1..Len(nodes)}

C21_Partition(kept, dropped, all) ==
    /\ C21_Members(kept) \cap C21_Members(dropped) = {}
    /\ C21_Members(kept) \cup C21_Members(dropped) = C21_Members(all)
    /\ \A node \in C21_Members(all) :
           C21_Count(kept, node) + C21_Count(dropped, node) = C21_Count(all, node)

\* C21: of the children of the input nodes, each is selected by exactly one
\* of the filter F and the filter !F: the two node lists share no node and
\* hold together the nodes the wildcard selects, each as often.
C21_FilterAndNegationPartition ==
    C21_AfterFilter =>
        C21_Partition(ev_nodes,
                      C21_Select(Filter(FxNot(ev_query[ev_seg - 1][2][1][2]))),
                      C21_Select(Wild))

\* Both filters select something, from a child list that is not of one kind.
C21_Witness ==
    /\ C21_AfterFilter
    /\ ev_impl = "serde"
    /\ Len(ev_nodes) > 0
    /\ Len(ev_nodes) < Len(C21_Select(Wild))
    /\ \E i, j \in 1..Len(C21_Select(Wild)) :
           C21_Select(Wild)[i].value[1] # C21_Select(Wild)[j].value[1]


\* ------------------------------------------------------------------ C22

\* Operands and operators as the harness writes them, each with what it
\* stands for; an operator also with its level, || below && below the
\* comparisons.
C22_Operands ==
    {<<Str(<<"@", ".", "a">>), FxRelativeQuery(q_a)>>, <<Str(<<"1">>), FxInt(1)>>, <<Str(<<"t", "r", "u", "e">>), FxTrue>>,
     <<Str(<<"c", "o", "u", "n", "t", "(", "@", ".", "*", ")">>), FxFunction(count_name, <<FxRelativeQuery(<<Child(<<Wild>>)>>)>>)>>}

C22_Operators ==
    {<<Str(<<" ", "|", "|", " ">>), "Or", 1>>, <<Str(<<" ", "&", "&", " ">>), "And", 2>>, <<Str(<<" ", "=", "=", " ">>), "Eq", 3>>, <<Str(<<" ", "<", " ">>), "Lt", 3>>}

C22_Apply(op, left, right) ==
    IF op[3] = 3 THEN FxComparison(left, op[2], right) ELSE FxLogical(left, op[2], right)

\* x op1 y op2 z with operators of two levels, and the expression it is to
\* stand for: the operator of the higher level takes its operands first.
C22_Chains ==
    {<<x[1] \o ops[1][1] \o y[1] \o ops[2][1] \o z[1],
       IF ops[1][3] > ops[2][3]
       THEN C22_Apply(ops[2], C22_Apply(ops[1], x[2], y[2]), z[2])
       ELSE C22_Apply(ops[1], x[2], C22_Apply(ops[2], y[2], z[2]))>> :
        x \in C22_Operands, y \in C22_Operands, z \in C22_Operands,
        ops \in {p \in C22_Operators \X C22_Operators : p[1][3] # p[2][3]}}

\* !x op y: the negation takes its operand before any operator does.
C22_Negated ==
    {<<Str(<<"!">>) \o x[1] \o op[1] \o y[1], C22_Apply(op, FxNot(x[2]), y[2])>> :
        x \in C22_Operands, y \in C22_Operands, op \in C22_Operators}

\* (x op1 y) op2 z and x op1 (y op2 z), whatever the levels.
C22_Grouped ==
    {<<Str(<<"(">>) \o x[1] \o op1[1] \o y[1] \o Str(<<")">>) \o op2[1] \o z[1],
       C22_Apply(op2, C22_Apply(op1, x[2], y[2]), z[2])>> :
        x \in C22_Operands, y \in C22_Operands, z \in C22_Operands,
        op1 \in C22_Operators, op2 \in C22_Operators}
    \cup
    {<<x[1] \o op1[1] \o Str(<<"(">>) \o y[1] \o op2[1] \o z[1] \o Str(<<")">>),
       C22_Apply(op1, x[2], C22_Apply(op2, y[2], z[2]))>> :
        x \in C22_Operands, y \in C22_Operands, z \in C22_Operands,
        op1 \in C22_Operators, op2 \in C22_Operators}

C22_Cases == C22_Chains \cup C22_Negated \cup C22_Grouped

\* The selection each of these queries is to stand for.
C22_Expected ==
    [query \in {FilterQuery(case[1]) : case \in C22_Cases} |->
        <<Child(<<Filter((CHOOSE case \in C22_Cases :
                            FilterQuery(case[1]) = query)[2])>>)>>]

\* C22: a filter expression without parentheses that the parser accepts
\* stands for the grouping by level, || below && below the comparisons
\* below !, and parentheses group what they enclose.
C22_OperatorsGroupByPrecedence ==
    (Accepted /\ ps_query \in DOMAIN C22_Expected)
        => ps_result.val = C22_Expected[ps_query]

\* a || b && c is accepted and stands for a || (b && c).
C22_Witness ==
    /\ Accepted
    /\ ps_query = FilterQuery(Str(<<"@", ".", "a", " ", "|", "|", " ", "@", ".", "a", " ", "&", "&", " ", "@", ".", "a">>))
    /\ ps_result.val = <<Child(<<Filter(
            FxLogical(FxRelativeQuery(q_a), "Or",
                      FxLogical(FxRelativeQuery(q_a), "And", FxRelativeQuery(q_a))))>>)>>


\* ------------------------------------------------------------------ C23

\* What the eager evaluator makes of the segment the iterator is running
\* through: Segment::resolve on the nodes the iterator before it yielded.
C23_Resolved ==
    IF ev_seg = 1 THEN <<Node(ev_doc, Str(<<"$">>))>>
    ELSE Segment_resolve(ev_query[ev_seg - 1], ev_prev, ev_doc)

C23_IsPrefix(nodes, resolved) ==
    /\ Len(nodes) <= Len(resolved)
    /\ nodes = SubSeq(resolved, 1, Len(nodes))
    /\ it_done => nodes = resolved

C24_IsLast(kind) ==
    /\ Len(lx_l.tokens) > 0
    /\ LexerTokenKinds[Len(lx_l.tokens)] = kind
    /\ \A i \in 1..(Len(lx_l.tokens) - 1) : LexerTokenKinds[i] \notin {"Eoq", "Error"}

\* C24: in every token stream the lexer produces, no token follows an Error
\* token, and a stream the run loop has finished ends with exactly one of
\* Eoq or Error, as its last token.
C24_ErrorTokenEndsTheStream ==
    /\ \A i \in 1..(Len(lx_l.tokens) - 1) : LexerTokenKinds[i] # "Error"
    /\ lx_state \in {"Error", "EndOfQuery"} =>
          C24_IsLast("Eoq") \/ C24_IsLast("Error")

\* The messages of lex_number.
C24_NumberMessages ==
    {"expected a digit, found '{}'",
     "a fractional digit is required after a decimal point",
     "at least one exponent digit is required"}

\* What does hold: the function that returns State::Error has just emitted
\* an Error token, the one that returns State::EndOfQuery the only Eoq
\* token, and an Error token that another token follows is one of
\* lex_number, called for a digit by lex_inside_filter.
C24_Control ==
    /\ lx_state = "Error" => LexerTokenKinds[Len(lx_l.tokens)] = "Error"
    /\ lx_state = "EndOfQuery" =>
          /\ LexerTokenKinds[Len(lx_l.tokens)] = "Eoq"
          /\ \A i \in 1..(Len(lx_l.tokens) - 1) : LexerTokenKinds[i] # "Eoq"
    /\ \A i \in 1..(Len(lx_l.tokens) - 1) :
          LexerTokenKinds[i] = "Error" =>
              /\ lx_l.tokens[i].kind[2].text \in C24_NumberMessages
              /\ is_digit[lx_l.query[lx_l.tokens[i].span[1] + 1]]

\* ---- C25

C25_StringStates ==
    [LexInsideSingleQuotedString |-> CharCode("'"), LexInsideDoubleQuotedString |-> CharCode("\""),
     LexInsideSingleQuotedFilterString |-> CharCode("'"),
     LexInsideDoubleQuotedFilterString |-> CharCode("\"")]

\* Does the text from index i hold the quote that closes the literal?  A
\* backslash takes the character after it with it.
RECURSIVE C25_Closes(_, _, _)
C25_Closes(query, i, quote) ==
    IF i > Len(query) THEN FALSE
    ELSE IF query[i] = CharCode("\\") THEN C25_Closes(query, i + 2, quote)
    ELSE IF query[i] = quote THEN TRUE
    ELSE C25_Closes(query, i + 1, quote)

\* The lexer has taken an opening quote and the query ends before the
\* closing one.
C25_Unclosed ==
    /\ lx_state \in DOMAIN C25_StringStates
    /\ ~C25_Closes(lx_l.query, lx_l.pos + 1, C25_StringStates[lx_state])

C25_ReportsAnError ==
    /\ lx_state' = "Error"
    /\ lx_l'.panic = <<>>
    /\ lx_l'.tokens[Len(lx_l'.tokens)].kind[1] = "Error"
    /\ \A i \in 1..Len(lx_l'.tokens) : lx_l'.tokens[i].kind[1] # "Eoq"

\* C25: when the query ends before the closing quote of a string literal,
\* in a bracketed selection or in a filter, and also right after the opening
\* quote, lexing the literal ends the run with an Error token: it does not
\* panic and no Eoq token is emitted.
C25_UnclosedStringIsAnError ==
    [][(LexerRun /\ C25_Unclosed) => C25_ReportsAnError]_vars

\* The same with at least one character after the opening quote: holds.
C25_Control ==
    [][(LexerRun /\ C25_Unclosed /\ lx_l.pos < Len(lx_l.query))
          => C25_ReportsAnError]_vars

\* and right after the opening quote the run always panics.
C25_ControlPanics ==
    [][(LexerRun /\ C25_Unclosed /\ lx_l.pos = Len(lx_l.query))
          => lx_state' = "Panic"]_vars

\* ---- C26

C26_IsHigh(v) == v >= 55296 /\ v <= 56319
C26_IsLow(v) == v >= 56320 /\ v <= 57343

\* The value of the \uHHHH that starts at index i, None if there is none.
C26_U(chars, i) ==
    IF i + 5 <= Len(chars) /\ chars[i] = CharCode("\\") /\ chars[i + 1] = CharCode("u")
    THEN from_str_radix_16(SubSeq(chars, i + 2, i + 5))
    ELSE None

C26_Simple ==
    [b |-> 8, f |-> 12, n |-> 10, r |-> 13, t |-> 9]

\* JSON string decoding of the text between the quotes, from index i on:
\* Some(code points), None when the text is no string.
RECURSIVE C26_Decode(_, _, _, _)
C26_Decode(chars, i, quote, out) ==
    LET e == chars[i + 1]
        u == C26_U(chars, i)
        low == C26_U(chars, i + 6)
        one(ch, width) == C26_Decode(chars, i + width, quote, Append(out, ch))
    IN  IF i > Len(chars) THEN Some(out)
        ELSE IF chars[i] # CharCode("\\") THEN one(chars[i], 1)
        ELSE IF i + 1 > Len(chars) THEN None
        ELSE IF e \in {CharCode("/"), CharCode("\\"), quote} THEN one(e, 2)
        ELSE IF e = CharCode("b") THEN one(C26_Simple.b, 2)
        ELSE IF e = CharCode("f") THEN one(C26_Simple.f, 2)
        ELSE IF e = CharCode("n") THEN one(C26_Simple.n, 2)
        ELSE IF e = CharCode("r") THEN one(C26_Simple.r, 2)
        ELSE IF e = CharCode("t") THEN one(C26_Simple.t, 2)
        ELSE IF ~IsSome(u) THEN None
        ELSE IF C26_IsLow(Unwrap(u)) THEN None
        ELSE IF ~C26_IsHigh(Unwrap(u)) THEN one(Unwrap(u), 6)
        ELSE IF IsSome(low) /\ C26_IsLow(Unwrap(low))
        THEN one(65536 + (Unwrap(u) - 55296) * 1024 + (Unwrap(low) - 56320), 12)
        ELSE None

\* The string literals of the harness the lexer accepts: the query, and
\* the selection it is to compile to (<<>> when it is to be rejected).
C26_Case(query, quote, body, selector(_)) ==
    LET decoded == C26_Decode(body, 1, quote, <<>>)
    IN  <<query, IF IsSome(decoded) THEN <<<<Child(<<selector(Unwrap(decoded))>>)>>>>
                 ELSE <<>>>>

C26_Comparand(string) == Filter(FxComparison(FxRelativeQuery(q_a), "Eq", FxString(string)))

C26_Cases ==
    {c \in {C26_Case(QuotedNameQuery(quote, body), quote, body, Name) :
                quote \in {CharCode("'"), CharCode("\"")}, body \in EscapeBodies}
           \cup {C26_Case(QuotedComparandQuery(quote, body), quote, body, C26_Comparand) :
                quote \in {CharCode("'"), CharCode("\"")}, body \in EscapeBodies} :
        lex(c[1], FALSE).tag = "Ok"}

C26_Expected == [query \in {c[1] : c \in C26_Cases} |->
                    (CHOOSE c \in C26_Cases : c[1] = query)[2]]

\* C26: on every string literal the lexer accepts, the parser's decoding of
\* the escapes is JSON string decoding: the literal compiles to the decoded
\* string (\b is U+0008, \f is U+000C, a \uHHHH that is no surrogate is one
\* code point, a high surrogate followed by a low one is one supplementary
\* code point), and a literal with a surrogate without its partner is
\* rejected.
C26_EscapesDecodeAsInJson ==
    (ps_pc \in {"parsed", "displayed", "reparsed"} /\ ps_query \in DOMAIN C26_Expected)
        => IF C26_Expected[ps_query] = <<>> THEN ps_result.tag = "Err"
           ELSE ps_result.tag = "Ok" /\ ps_result.val = C26_Expected[ps_query][1]

\* What does hold: the literals without \b and \f in which no \u escape
\* follows another one, or a high surrogate is followed by its low one.
C26_ControlBodies ==
    {Str(<<"\\", "n">>), Str(<<"\\", "r">>), Str(<<"\\", "t">>), Str(<<"\\", "/">>), Str(<<"\\", "\\">>), Str(<<"\\", "'">>), Str(<<"\\", "\"">>), Str(<<"\\", "u", "0", "0", "4", "1">>), Str(<<"a", "\\", "u", "0", "0", "4", "1", "b">>),
     Str(<<"\\", "u", "0", "0", "4", "1", "\\", "n">>), Str(<<"\\", "u", "d", "8", "3", "d", "\\", "u", "d", "e", "0", "0">>), Str(<<"\\", "u", "D", "8", "3", "D", "\\", "u", "D", "E", "0", "0">>), Str(<<"\\", "u", "d", "8", "3", "d">>), Str(<<"\\", "u", "d", "e", "0", "0">>), Str(<<"\\", "u", "d", "8", "3", "d", "A">>)}

C26_Control ==
    (ps_pc \in {"parsed", "displayed", "reparsed"}
     /\ ps_query \in DOMAIN C26_Expected
     /\ \E quote \in {CharCode("'"), CharCode("\"")}, body \in C26_ControlBodies :
           ps_query \in {QuotedNameQuery(quote, body), QuotedComparandQuery(quote, body)})
        => IF C26_Expected[ps_query] = <<>> THEN ps_result.tag = "Err"
           ELSE ps_result.tag = "Ok" /\ ps_result.val = C26_Expected[ps_query][1]

\* ---- C27

C27_Malformed ==
    LeadingCommaSelections \cup TrailingCommaSelections
    \cup DoubledCommaSelections \cup MissingCommaSelections

\* C27: a bracketed selection is accepted only when its selectors have
\* exactly one comma between each two of them and none before the first or
\* after the last: the selections of the harness with a leading comma, a
\* trailing comma, a doubled comma or no comma between two selectors are
\* not accepted.
C27_SelectorsAreCommaSeparated ==
    Accepted => ps_query \notin C27_Malformed

\* What does hold: the selections that are accepted are the well formed
\* ones and the ones with a trailing comma.
C27_Control ==
    (ps_pc \in {"parsed", "displayed", "reparsed"} /\ ps_query \in CommaQueries)
        => (Accepted <=> ps_query \in SeparatedSelections \cup TrailingCommaSelections)

\* ---- C28

\* C28: the integers of one slice are separated by colons: a selection in
\* which only whitespace stands between two integers is not accepted (and
\* so no Slice is built from it).
C28_SliceComponentsAreColonSeparated ==
    Accepted => ps_query \notin WhitespaceSeparatedSlices

\* What does hold: such a selection is not accepted when the first of
\* the two integers is followed by a third colon or is not part of a slice.
C28_Control ==
    Accepted =>
        ps_query \notin {Str(<<"$", "[", "1", " ", "2", ":", "3", "]">>), Str(<<"$", "[", "1", " ", "2", ":", "]">>), Str(<<"$", "[", "1", ":", "2", ":", "3", " ", "4", "]">>), Str(<<"$", "[", "1", " ", "2", " ", "3", "]">>), Str(<<"$", "[", "1", ":", "2", ":", "3", ":", "4", "]">>), Str(<<"$", "[", ":", ":", ":", "]">>)}

\* ---- C29

\* Are the parentheses and brackets of the text from index i on properly
\* nested, given the ones that are open?  Those inside a string literal do
\* not count.
RECURSIVE C29_Nested(_, _, _, _)
C29_Nested(query, i, open, quote) ==
    LET ch == query[i]
        on(j) == C29_Nested(query, j, open, quote)
    IN  IF i > Len(query) THEN open = <<>> /\ quote = 0
        ELSE IF quote # 0
        THEN IF ch = CharCode("\\") THEN on(i + 2)
             ELSE IF ch = quote THEN C29_Nested(query, i + 1, open, 0)
             ELSE on(i + 1)
        ELSE IF ch \in {CharCode("'"), CharCode("\"")} THEN C29_Nested(query, i + 1, open, ch)
        ELSE IF ch = CharCode("(") THEN C29_Nested(query, i + 1, Append(open, CharCode(")")), 0)
        ELSE IF ch = CharCode("[") THEN C29_Nested(query, i + 1, Append(open, CharCode("]")), 0)
        ELSE IF ch \in {CharCode(")"), CharCode("]")}
        THEN /\ Len(open) > 0 /\ open[Len(open)] = ch
             /\ C29_Nested(query, i + 1, SubSeq(open, 1, Len(open) - 1), 0)
        ELSE on(i + 1)

C29_Unbalanced ==
    /\ lx_state = "Error"
    /\ lx_l.tokens[Len(lx_l.tokens)].kind[2].text = "unbalanced parentheses"

\* C29: the lexer reports "unbalanced parentheses" only for a query whose
\* parentheses and brackets are not properly nested; a call whose argument
\* is a query with a bracketed filter selector of its own, as in
\* $[?count(@[?@.a]) > 1], is not rejected with that error.
C29_NoFalseUnbalancedParentheses ==
    C29_Unbalanced => ~C29_Nested(lx_l.query, 1, <<>>, 0)

\* What does hold: the error is reported when a filter ends while a call
\* is open whose parentheses are all closed but its own.
C29_Control ==
    C29_Unbalanced =>
        \/ ~C29_Nested(lx_l.query, 1, <<>>, 0)
        \/ /\ lx_l.query[lx_l.pos + 1] = CharCode("]")
           /\ Len(lx_l.paren_stack) = 1
           /\ \E i \in 1..Len(lx_l.tokens), j \in 1..Len(lx_l.tokens) :
                 /\ i < j
                 /\ LexerTokenKinds[i] = "Function"
                 /\ LexerTokenKinds[j] = "Filter"

\* ---- C30

\* A turn of the run loop that decrements the counter when it is 0: the
\* subtraction panics where overflow is checked and wraps elsewhere.
C30_DecrementAtZero ==
    /\ lx_l.filter_depth = 0
    /\ \/ lx_l'.filter_depth \notin {0, 1}
       \/ lx_l'.panic = Some("attempt to subtract with overflow")

C30_EoqEmitted ==
    \E i \in 1..Len(lx_l.tokens) : LexerTokenKinds[i] = "Eoq"

C30_CounterAgrees ==
    /\ lx_state = "LexInsideFilter" => lx_l.filter_depth >= 1
    /\ C30_EoqEmitted => lx_l.filter_depth = 0

\* C30: on every input the filter nesting counter agrees with the state of
\* the lexer: it is at least 1 whenever the state is LexInsideFilter, it is
\* 0 whenever an Eoq token has been emitted, and no turn of the run loop
\* decrements it when it is 0.
C30_FilterDepthIsConsistent ==
    [](C30_CounterAgrees) /\ [][LexerRun => ~C30_DecrementAtZero]_vars

\* A query with a filter nested in a filter, each followed by another
\* selector, has been lexed to its end.
C30_Witness ==
    /\ lx_state = "EndOfQuery"
    /\ lx_l.filter_depth = 0
    /\ C30_EoqEmitted
    /\ Cardinality({i \in 1..Len(lx_l.tokens) : LexerTokenKinds[i] = "Filter"}) >= 3
    /\ \E i \in 1..Len(lx_l.tokens) : LexerTokenKinds[i] = "Comma"

====
